---- MODULE Spec2Model ----
(***************************************************************************)
(* A model of the output-archive engine of atm-cli: the melody enumerator  *)
(* (utils::gen_sequences), the path generators (storage.rs) and the tar    *)
(* storage backends (storage/tar_archive.rs, storage/batch_tar_file.rs).   *)
(*                                                                         *)
(* Conventions.                                                            *)
(*  - A MIDI note is modelled by the integer MIDINote::convert() returns.   *)
(*  - A Rust String is a sequence of one-character strings, so that        *)
(*    formatting an integer and joining path segments are computed.        *)
(*  - Option<T>: None is <<>>, Some(x) is <<x>>.                           *)
(*  - Result<T, E>: a record with ok = TRUE (and the value) or ok = FALSE  *)
(*    and err, the error variant.                                          *)
(***************************************************************************)
EXTENDS Integers, Sequences, FiniteSets, TLC

VARIABLES
    \* ---- the enumeration pipeline (SpecGen) ----
    notes,            \* the note vector handed to gen_sequences
    melody_length,    \* the melody length L
    max_files,        \* max_files M handed to PartitionPathGenerator::new
    partition_depth,  \* the requested partition depth D
    path_generator,   \* Result of PartitionPathGenerator::new
    iters,            \* the MultiProduct iterator returned by gen_sequences
    produced,         \* the melodies the iterator has yielded, in order
    exhausted,        \* TRUE once the iterator has returned None
    basenames,        \* gen_basename_for_file of each yielded melody, in order
    \* ---- the storage backends (Spec) ----
    kind,             \* the backend under test: "TarArchive" | "TarFile" |
                      \* "TarGzFile" | "BatchTarFile"
    tar,              \* the TarArchive (of a TarFile or TarGzFile: its archive field)
    btf,              \* the BatchTarFile
    mode_arg,         \* the mode argument the caller passes to append_file
    batches,          \* per outer entry written: the partition and batch number
                      \* it was flushed under and the melodies that had been
                      \* appended to the batch archive it was flushed from
    calls             \* log of the calls made on the backend and their results

vars == <<notes, melody_length, max_files, partition_depth, path_generator,
          iters, produced, exhausted, basenames,
          kind, tar, btf, mode_arg, batches, calls>>

genVars == <<notes, melody_length, max_files, partition_depth, path_generator,
             iters, produced, exhausted, basenames>>

backendVars == <<kind, tar, btf, mode_arg, batches, calls>>

(***************************************************************************)
(* Bounds of the model and program constants.                              *)
(***************************************************************************)
MaxLen == 3            \* melody lengths 1..MaxLen in SpecGen
MaxDepth == 2          \* requested partition depths 1..MaxDepth in SpecGen
MaxCalls == 4          \* calls made on one backend
MaxFaults == 1         \* I/O errors injected into the file sink in one run
MaxBatchSize == 2      \* batch sizes 1..MaxBatchSize

\* f32 +inf cast to u32 saturates to u32::MAX; the model's integers are 32-bit
\* signed, so the largest of them stands for it
U32Max == 2147483647
DefaultMode == 644     \* header.set_mode(644)

\* std::path::MAIN_SEPARATOR
Sep == "/"

None == <<>>
Some(x) == <<x>>

Ok(v) == [ok |-> TRUE, val |-> v]
Err(e) == [ok |-> FALSE, err |-> e]

(***************************************************************************)
(* Strings and numbers.                                                    *)
(***************************************************************************)
DigitChar(d) ==
    CASE d = 0 -> "0" [] d = 1 -> "1" [] d = 2 -> "2" [] d = 3 -> "3"
      [] d = 4 -> "4" [] d = 5 -> "5" [] d = 6 -> "6" [] d = 7 -> "7"
      [] d = 8 -> "8" [] d = 9 -> "9"

RECURSIVE ToStr(_)
\* u32::to_string: decimal, no padding
ToStr(n) ==
    IF n < 10 THEN <<DigitChar(n)>>
    ELSE ToStr(n \div 10) \o <<DigitChar(n % 10)>>

RECURSIVE Concat(_)
\* Vec<String>::join("")
Concat(ss) == IF ss = <<>> THEN <<>> ELSE Head(ss) \o Concat(Tail(ss))

RECURSIVE Join(_, _)
\* Vec<String>::join(sep)
Join(ss, sep) ==
    IF ss = <<>> THEN <<>>
    ELSE IF Len(ss) = 1 THEN Head(ss)
    ELSE Head(ss) \o <<sep>> \o Join(Tail(ss), sep)

RECURSIVE Pow(_, _)
\* f32::powi on the integers of the model
Pow(b, e) == IF e = 0 THEN 1 ELSE b * Pow(b, e - 1)

RECURSIVE LeastPow(_, _, _, _)
\* least p >= from with base^p * den >= num
LeastPow(base, num, den, from) ==
    IF Pow(base, from) * den >= num THEN from
    ELSE LeastPow(base, num, den, from + 1)

\* f32::log(x, b) is ln(x) / ln(b) in single precision.  For these arguments
\* <<x, b>> among the inputs of the model, x is a power of b and the quotient
\* of the two rounded logarithms is greater than the exponent, so that ceil()
\* gives one more than it: ln(823543) / ln(7) = 7.0000005
F32LogAbove == {<<823543, 7>>}

\* (num / den).log(base).ceil() as u32: a base of 1 divides by ln 1 = 0 and
\* gives +inf, which the cast saturates; a quotient <= 1 gives a value <= 0
CeilLog(num, den, base) ==
    IF base = 1 THEN (IF num > den THEN U32Max ELSE 0)
    ELSE IF num % den = 0 /\ <<num \div den, base>> \in F32LogAbove
    THEN LeastPow(base, num, den, 0) + 1
    ELSE LeastPow(base, num, den, 0)

\* Numbers beyond the integers of the model (8^12, 9^13): sequences of limbs
\* in base 1000, least significant first
Limb == 1000

RECURSIVE BigMul(_, _, _)
\* a * s + carry, for a small factor s
BigMul(a, s, carry) ==
    IF a = <<>>
    THEN (IF carry = 0 THEN <<>> ELSE <<carry % Limb>> \o BigMul(<<>>, s, carry \div Limb))
    ELSE <<(Head(a) * s + carry) % Limb>>
             \o BigMul(Tail(a), s, (Head(a) * s + carry) \div Limb)

BigOf(n) == BigMul(<<1>>, n, 0)

RECURSIVE BigLess(_, _)
BigLess(a, b) ==
    IF Len(a) # Len(b) THEN Len(a) < Len(b)
    ELSE IF a = <<>> THEN FALSE
    ELSE IF a[Len(a)] # b[Len(b)] THEN a[Len(a)] < b[Len(b)]
    ELSE BigLess(SubSeq(a, 1, Len(a) - 1), SubSeq(b, 1, Len(b) - 1))

RECURSIVE BigPow(_, _)
\* f32::powi where the value is beyond the integers of the model
BigPow(b, e) == IF e = 0 THEN <<1>> ELSE BigMul(BigPow(b, e - 1), b, 0)

RECURSIVE BigLeastPow(_, _, _, _)
\* least p >= from with base^p * den >= num
BigLeastPow(base, num, den, from) ==
    IF ~BigLess(BigMul(BigPow(base, from), den, 0), num) THEN from
    ELSE BigLeastPow(base, num, den, from + 1)

\* (num / den).log(base).ceil() as u32 for a base > 1 and num > den
BigCeilLog(num, den, base) ==
    IF \E t \in F32LogAbove : t[2] = base /\ BigMul(BigOf(t[1]), den, 0) = num
    THEN BigLeastPow(base, num, den, 0) + 1
    ELSE BigLeastPow(base, num, den, 0)

(***************************************************************************)
(* Melodies, hashes and path generators (storage.rs).                      *)
(***************************************************************************)
\* the note vectors the model draws from (MIDI values of the pitches)
NoteVecs == {<<60>>, <<60, 62>>, <<60, 60>>, <<12, 112, 121>>}

\* the max_files values the model draws from
MaxFilesSet == {2, 4}

Distinct(s) == \A i, j \in 1..Len(s) : i # j => s[i] # s[j]

\* p.iter().map(|n| n.convert().to_string()).collect::<Vec<String>>().join("")
RenderNotes(slice) == Concat([i \in 1..Len(slice) |-> ToStr(slice[i])])

\* MIDIFile::gen_hash: the integer representations of the notes, concatenated
gen_hash(melody) == RenderNotes(melody)

\* MIDIHashPathGenerator::gen_path_for_file
MIDIHash_gen_path_for_file(melody) == Ok(gen_hash(melody) \o <<".mid">>)

\* mutant of gen_partition_length: the length is not compared with the melody
gen_partition_length_NoCheck(num_notes, num_melodies, mlen, maxf, depth) ==
    Ok(CeilLog(num_melodies, maxf, Pow(num_notes, depth)))

\* PartitionPathGenerator::gen_partition_length
gen_partition_length(num_notes, num_melodies, mlen, maxf, depth) ==
    LET partition_length == CeilLog(num_melodies, maxf, Pow(num_notes, depth))
        \* partition_depth * partition_length in u32; the length is u32::MAX only
        \* for a base of 1, that is for depth 0 (num_notes 1 never gets here)
        product == IF depth = 0 THEN 0 ELSE depth * partition_length
    IN  IF mlen < product
        THEN Err("PartitionsLongerThanMelody")
        ELSE Ok(partition_length)

\* mutant of PartitionPathGenerator_new: the flat-layout shortcut is taken
\* before the depth is compared with the melody length
PartitionPathGenerator_new_ShortcutFirst(num_notes, mlen, maxf, depth) ==
    LET num_melodies == Pow(num_notes, mlen)
    IN  IF num_notes = 1 \/ num_melodies <= maxf
        THEN Ok([melody_length |-> mlen, partition_depth |-> 1, partition_length |-> 0])
        ELSE IF depth > mlen THEN Err("PartitionDepthLongerThanMelody")
        ELSE LET r == gen_partition_length(num_notes, num_melodies, mlen, maxf, depth)
             IN  IF r.ok
                 THEN Ok([melody_length |-> mlen,
                          partition_depth |-> depth,
                          partition_length |-> r.val])
                 ELSE r

\* mutant of PartitionPathGenerator_new: the flat layout keeps the depth asked for
PartitionPathGenerator_new_KeepsDepth(num_notes, mlen, maxf, depth) ==
    IF depth > mlen THEN Err("PartitionDepthLongerThanMelody")
    ELSE LET num_melodies == Pow(num_notes, mlen)
         IN  IF ~(num_notes = 1 \/ num_melodies <= maxf)
             THEN LET r == gen_partition_length(num_notes, num_melodies, mlen, maxf, depth)
                  IN  IF r.ok
                      THEN Ok([melody_length |-> mlen,
                               partition_depth |-> depth,
                               partition_length |-> r.val])
                      ELSE r
             ELSE Ok([melody_length |-> mlen,
                      partition_depth |-> depth,
                      partition_length |-> 0])

\* PartitionPathGenerator::new
PartitionPathGenerator_new(num_notes, mlen, maxf, depth) ==
    IF depth > mlen THEN Err("PartitionDepthLongerThanMelody")
    ELSE LET num_melodies == Pow(num_notes, mlen)
         IN  IF ~(num_notes = 1 \/ num_melodies <= maxf)
             THEN LET r == gen_partition_length(num_notes, num_melodies, mlen, maxf, depth)
                  IN  IF r.ok
                      THEN Ok([melody_length |-> mlen,
                               partition_depth |-> depth,
                               partition_length |-> r.val])
                      ELSE r
             ELSE Ok([melody_length |-> mlen,
                      partition_depth |-> 1,
                      partition_length |-> 0])

\* mutant of gen_basename_for_file: depth 0 is answered before the length is
\* compared
gen_basename_for_file_DepthFirst(g, melody) ==
    IF g.partition_depth = 0 THEN Ok(<<>>)
    ELSE IF Len(melody) # g.melody_length THEN Err("MelodyLengthMismatch")
    ELSE IF g.partition_length * g.partition_depth > Len(melody) THEN Err("panic")
    ELSE Ok(Join([p \in 1..g.partition_depth |->
                    RenderNotes(SubSeq(melody,
                                       g.partition_length * (p - 1) + 1,
                                       g.partition_length * p))],
                 Sep))

\* PartitionPathGenerator::gen_basename_for_file
gen_basename_for_file(g, melody) ==
    IF Len(melody) # g.melody_length THEN Err("MelodyLengthMismatch")
    ELSE IF g.partition_depth = 0 THEN Ok(<<>>)
    ELSE IF g.partition_length * g.partition_depth > Len(melody) THEN Err("panic")
    ELSE Ok(Join([p \in 1..g.partition_depth |->
                    RenderNotes(SubSeq(melody,
                                       g.partition_length * (p - 1) + 1,
                                       g.partition_length * p))],
                 Sep))

\* Path::new(&basename).join(&filename)
PathJoin(basename, filename) ==
    IF basename = <<>> THEN filename ELSE basename \o <<Sep>> \o filename

\* PartitionPathGenerator::gen_path_for_file
Partition_gen_path_for_file(g, melody) ==
    LET b == gen_basename_for_file(g, melody)
    IN  IF b.ok THEN Ok(PathJoin(b.val, gen_hash(melody) \o <<".mid">>)) ELSE b

(***************************************************************************)
(* utils::gen_sequences: itertools' multi_cartesian_product over           *)
(* melody_length copies of notes.iter().  Each sub-iterator holds its      *)
(* current item (cur, an index into notes) and the position of the slice   *)
(* iterator behind it (pos).                                               *)
(***************************************************************************)
\* MultiProductIter::iterate: cur = iter.next()
MPIterate(it, k) ==
    IF it.pos < k THEN [cur |-> Some(it.pos + 1), pos |-> it.pos + 1]
    ELSE [cur |-> None, pos |-> it.pos]

\* mutant of MPReset: the slice iterator is not rewound
MPReset_NoRewind(it) == it

\* MultiProductIter::reset: iter = iter_orig.clone()
MPReset(it) == [cur |-> it.cur, pos |-> 0]

RECURSIVE IterateLast(_, _, _)
\* MultiProduct::iterate_last; state is StartOfIter, or MidIter with on_first_iter
IterateLast(its, state, k) ==
    IF its = <<>> THEN [its |-> its, res |-> (state = "MidIterFirst")]
    ELSE LET n == Len(its)
             last == its[n]
             rest == SubSeq(its, 1, n - 1)
             on_first_iter == IF state = "StartOfIter" THEN last.cur = None
                              ELSE state = "MidIterFirst"
             st == IF on_first_iter THEN "MidIterFirst" ELSE "MidIter"
             last1 == IF on_first_iter THEN last ELSE MPIterate(last, k)
         IN  IF last1.cur # None THEN [its |-> Append(rest, last1), res |-> TRUE]
             ELSE LET r == IterateLast(rest, st, k)
                      last2 == MPIterate(MPReset(last1), k)
                  IN  IF r.res
                      THEN [its |-> Append(r.its, last2), res |-> last2.cur # None]
                      ELSE [its |-> Append(r.its, last1), res |-> FALSE]

\* gen_sequences(notes, length): the iterator before its first next()
gen_sequences(ns, length) == [i \in 1..length |-> [cur |-> None, pos |-> 0]]

\* MultiProduct::curr_iterator: the current items of the sub-iterators
CurrMelody(its, ns) == [i \in 1..Len(its) |-> ns[its[i].cur[1]]]

\* the values of the backend variables while the enumeration runs alone
BackendIdle ==
    /\ kind = "none"
    /\ tar = <<>>
    /\ btf = <<>>
    /\ mode_arg = <<>>
    /\ batches = <<>>
    /\ calls = <<>>

GenInit ==
    /\ notes \in NoteVecs
    /\ melody_length \in 1..MaxLen
    /\ max_files \in MaxFilesSet
    /\ partition_depth \in 1..MaxDepth
    /\ path_generator =
           PartitionPathGenerator_new(Len(notes), melody_length, max_files, partition_depth)
    /\ iters = gen_sequences(notes, melody_length)
    /\ produced = <<>>
    /\ exhausted = FALSE
    /\ basenames = <<>>
    /\ BackendIdle

\* one turn of `for melody in gen_sequences(..)` that yields a melody, which is
\* handed to gen_basename_for_file (check_num_files_partition, storage.rs)
GenYield ==
    /\ ~exhausted
    /\ LET r == IterateLast(iters, "StartOfIter", Len(notes))
       IN  /\ r.res
           /\ iters' = r.its
           /\ produced' = Append(produced, CurrMelody(r.its, notes))
           /\ basenames' =
                  IF path_generator.ok
                  THEN Append(basenames,
                              gen_basename_for_file(path_generator.val,
                                                    CurrMelody(r.its, notes)))
                  ELSE basenames
    /\ UNCHANGED <<notes, melody_length, max_files, partition_depth,
                   path_generator, exhausted>>
    /\ UNCHANGED backendVars

\* the turn in which the iterator returns None and the loop ends
GenEnd ==
    /\ ~exhausted
    /\ LET r == IterateLast(iters, "StartOfIter", Len(notes))
       IN  /\ ~r.res
           /\ iters' = r.its
    /\ exhausted' = TRUE
    /\ UNCHANGED <<notes, melody_length, max_files, partition_depth,
                   path_generator, produced, basenames>>
    /\ UNCHANGED backendVars

GenNext == GenYield \/ GenEnd

SpecGen == GenInit /\ [][GenNext]_vars

(***************************************************************************)
(* The tar storage backends.                                               *)
(*                                                                         *)
(* A tar::Builder<W> is modelled by what it has written to its sink W      *)
(* (obj, a sequence of records) and its finished flag.  A write to a file  *)
(* sink may fail (io_ok = FALSE); a failed write adds nothing to obj.      *)
(* The serialized MIDI file and its size come from libatm and are kept     *)
(* symbolic: they are determined by the melody.                            *)
(***************************************************************************)
ErrClosed == [variant |-> "IOError", detail |-> "Archive is closed for writing, cannot append file"]
ErrWrite == [variant |-> "IOError", detail |-> "write failed"]
ErrPath(e) == [variant |-> "PathGenerator", detail |-> e]

Unit == <<>>

\* MIDIFile::gen_file and MIDIFile::gen_size
MIDIFile_gen_file(melody) == [midi |-> melody]
MIDIFile_gen_size(melody) == [size_of |-> melody]

EndOfArchive == [kind |-> "eoa"]

\* tar::Builder::new
Builder_new == [obj |-> <<>>, finished |-> FALSE]

\* tar::Builder::append_data: header, data and padding go to the sink; the
\* finished flag is not consulted
Builder_append_data(b, header, path, data, io_ok) ==
    IF io_ok
    THEN [self |-> [b EXCEPT !.obj = Append(@, [kind |-> "entry",
                                                 path |-> path,
                                                 mode |-> header.mode,
                                                 size |-> header.size,
                                                 data |-> data])],
          res |-> Ok(Unit)]
    ELSE [self |-> b, res |-> Err(ErrWrite)]

\* tar::Builder::finish: the two zero blocks are written once, the flag is set
\* before the write
Builder_finish(b, io_ok) ==
    IF b.finished THEN [self |-> b, res |-> Ok(Unit)]
    ELSE IF io_ok
    THEN [self |-> [obj |-> Append(b.obj, EndOfArchive), finished |-> TRUE],
          res |-> Ok(Unit)]
    ELSE [self |-> [b EXCEPT !.finished = TRUE], res |-> Err(ErrWrite)]

HashGen == [type |-> "MIDIHashPathGenerator"]
PartitionGen(g) == [type |-> "PartitionPathGenerator", g |-> g]

\* PathGenerator::gen_path_for_file, by implementation
gen_path_for_file(pg, melody) ==
    IF pg.type = "MIDIHashPathGenerator" THEN MIDIHash_gen_path_for_file(melody)
    ELSE Partition_gen_path_for_file(pg.g, melody)

\* TarArchive::new
TarArchive_new(pg) == [state |-> "Open", archive |-> Builder_new, path_generator |-> pg]

\* mutant of TarArchive_append_file: the state is not consulted
TarArchive_append_file_NoStateCheck(self, mfile, mode, io_ok) ==
    LET path == gen_path_for_file(self.path_generator, mfile)
    IN  IF ~path.ok
        THEN [self |-> self, res |-> Err(ErrPath(path.err)), paths |-> 1]
        ELSE LET header == [size |-> MIDIFile_gen_size(mfile),
                            mode |-> IF mode = None THEN DefaultMode ELSE mode[1]]
                 r == Builder_append_data(self.archive, header, path.val,
                                          MIDIFile_gen_file(mfile), io_ok)
             IN  [self |-> [self EXCEPT !.archive = r.self],
                  res |-> r.res, paths |-> 1]

\* TarArchive::append_file; paths counts the gen_path_for_file calls it makes
TarArchive_append_file(self, mfile, mode, io_ok) ==
    IF self.state = "Closed"
    THEN [self |-> self, res |-> Err(ErrClosed), paths |-> 0]
    ELSE LET path == gen_path_for_file(self.path_generator, mfile)
         IN  IF ~path.ok
             THEN [self |-> self, res |-> Err(ErrPath(path.err)), paths |-> 1]
             ELSE LET header == [size |-> MIDIFile_gen_size(mfile),
                                 mode |-> IF mode = None THEN DefaultMode ELSE mode[1]]
                      r == Builder_append_data(self.archive, header, path.val,
                                               MIDIFile_gen_file(mfile), io_ok)
                  IN  [self |-> [self EXCEPT !.archive = r.self],
                       res |-> r.res, paths |-> 1]

\* mutant of TarArchive_finish: the state is not consulted
TarArchive_finish_NoStateCheck(self, io_ok) ==
    IF io_ok
    THEN [self |-> [self EXCEPT !.state = "Closed",
                                !.archive = [obj |-> Append(@.obj, EndOfArchive),
                                             finished |-> TRUE]],
          res |-> Ok(Unit)]
    ELSE [self |-> [self EXCEPT !.state = "Closed"], res |-> Err(ErrWrite)]

\* TarArchive::finish
TarArchive_finish(self, io_ok) ==
    IF self.state = "Open"
    THEN LET r == Builder_finish(self.archive, io_ok)
         IN  [self |-> [self EXCEPT !.state = "Closed", !.archive = r.self],
              res |-> r.res]
    ELSE [self |-> self, res |-> Ok(Unit)]

\* TarFile::append_file and TarFile::finish delegate to the archive field
TarFile_append_file(self, mfile, mode, io_ok) ==
    TarArchive_append_file(self, mfile, mode, io_ok)
TarFile_finish(self, io_ok) == TarArchive_finish(self, io_ok)

\* TarGzFile::append_file and TarGzFile::finish delegate to the archive field
TarGzFile_append_file(self, mfile, mode, io_ok) ==
    TarArchive_append_file(self, mfile, mode, io_ok)
TarGzFile_finish(self, io_ok) == TarArchive_finish(self, io_ok)

(***************************************************************************)
(* The sink of a batch archive: GzEncoder<BufWriter<Vec<u8>>>.  Writes to  *)
(* it cannot fail.  The encoder hands its output to the BufWriter, which   *)
(* passes bytes on to the Vec only when its buffer would overflow.  The    *)
(* output of the encoder is counted at its upper bound, one stored chunk   *)
(* per tar record.                                                         *)
(***************************************************************************)
BufWriterCapacity == 8192   \* std::io::BufWriter::new
RecordBytes == 1024         \* header block + one data block; two zero blocks
GzHeaderBytes == 10
GzTrailerBytes == 8

RECURSIVE Bytes(_)
Bytes(chunks) == IF chunks = <<>> THEN 0 ELSE Head(chunks).bytes + Bytes(Tail(chunks))

\* BufWriter::write
BufWriter_write(w, chunk) ==
    LET f == IF Bytes(w.buf) + chunk.bytes > BufWriterCapacity
             THEN [buf |-> <<>>, inner |-> w.inner \o w.buf]
             ELSE w
    IN  IF chunk.bytes >= BufWriterCapacity
        THEN [f EXCEPT !.inner = Append(@, chunk)]
        ELSE [f EXCEPT !.buf = Append(@, chunk)]

RECURSIVE BufWriter_write_all(_, _, _)
\* the chunks from the i-th on are written in turn; each write acts on the
\* value the one before it has left
BufWriter_write_all(w, chunks, i) ==
    IF i > Len(chunks) THEN w
    ELSE CHOOSE r \in {BufWriter_write_all(x, chunks, j) :
                          x \in {BufWriter_write(w, chunks[i])}, j \in {i + 1}} : TRUE

\* what the encoder has written after try_finish: header, the compressed tar
\* stream, trailer
GzOutput(stream) ==
    <<[rec |-> [kind |-> "gz header"], bytes |-> GzHeaderBytes]>>
    \o [i \in 1..Len(stream) |-> [rec |-> stream[i], bytes |-> RecordBytes]]
    \o <<[rec |-> [kind |-> "gz trailer"], bytes |-> GzTrailerBytes]>>

\* encoder.get_mut().get_mut() after try_finish: the Vec behind the BufWriter
RawBuffer(stream) ==
    BufWriter_write_all([buf |-> <<>>, inner |-> <<>>], GzOutput(stream), 1).inner

\* the melodies whose MIDI files a tar stream holds, in order
RECURSIVE FilesOf(_)
FilesOf(stream) ==
    IF stream = <<>> THEN <<>>
    ELSE IF Head(stream).kind = "entry"
    THEN <<Head(stream).data.midi>> \o FilesOf(Tail(stream))
    ELSE FilesOf(Tail(stream))

\* BatchTarFile::gen_batch_archive
gen_batch_archive == TarArchive_new(HashGen)

\* BatchTarFile::new, after the target file has been opened
BatchTarFile_new(batch_size, num_notes, mlen, maxf, depth, batch_mode) ==
    IF batch_mode # None /\ batch_mode[1] > 777
    THEN Err([variant |-> "IOError", detail |-> "Invalid file mode"])
    ELSE LET pg == PartitionPathGenerator_new(num_notes, mlen, maxf, depth)
         IN  IF ~pg.ok THEN Err(ErrPath(pg.err))
             ELSE Ok([archive |-> Builder_new,
                      batch_archive |-> gen_batch_archive,
                      batch_mode |-> batch_mode,
                      batch_count |-> 0,
                      batch_size |-> batch_size,
                      batch_number |-> 0,
                      partition |-> <<>>,
                      path_generator |-> pg.val,
                      state |-> "Open"])

\* the path flush_batch formats
BatchPath(partition, batch_number) ==
    partition \o <<Sep>> \o <<"batch">> \o ToStr(batch_number) \o <<".tar.gz">>

\* BatchTarFile::flush_batch
flush_batch(self, io_ok) ==
    IF self.batch_archive.state = "Open"
    THEN LET fin == TarArchive_finish(self.batch_archive, TRUE)
             raw_buffer == RawBuffer(fin.self.archive.obj)
             path == BatchPath(self.partition, self.batch_number)
             header == [size |-> Bytes(raw_buffer),
                        mode |-> IF self.batch_mode = None THEN DefaultMode
                                 ELSE self.batch_mode[1]]
             r == Builder_append_data(self.archive, header, path,
                                      [i \in 1..Len(raw_buffer) |-> raw_buffer[i].rec],
                                      io_ok)
         IN  [self |-> [self EXCEPT !.batch_archive = fin.self, !.archive = r.self],
              res |-> r.res]
    ELSE [self |-> self, res |-> Ok(Unit)]

\* mutant of flush_and_init_batch: batch_count is not reset
flush_and_init_batch_KeepsCount(self, is_partition_boundary, io_ok) ==
    LET f == flush_batch(self, io_ok)
    IN  IF ~f.res.ok THEN f
        ELSE [self |-> [f.self EXCEPT
                           !.batch_archive = gen_batch_archive,
                           !.batch_number = IF is_partition_boundary THEN 0 ELSE @ + 1],
              res |-> Ok(Unit)]

\* mutant of flush_and_init_batch: batch_number is reset at every flush
flush_and_init_batch_AlwaysResets(self, is_partition_boundary, io_ok) ==
    LET f == flush_batch(self, io_ok)
    IN  IF ~f.res.ok THEN f
        ELSE [self |-> [f.self EXCEPT
                           !.batch_archive = gen_batch_archive,
                           !.batch_count = 0,
                           !.batch_number = 0],
              res |-> Ok(Unit)]

\* BatchTarFile::flush_and_init_batch
flush_and_init_batch(self, is_partition_boundary, io_ok) ==
    LET f == flush_batch(self, io_ok)
    IN  IF ~f.res.ok THEN f
        ELSE [self |-> [f.self EXCEPT
                           !.batch_archive = gen_batch_archive,
                           !.batch_count = 0,
                           !.batch_number = IF is_partition_boundary THEN 0 ELSE @ + 1],
              res |-> Ok(Unit)]

\* mutant of BatchTarFile_append_file: the pending batch is flushed before the
\* basename of the file is known to exist
BatchTarFile_append_file_FlushesFirst(self, mfile, mode, io_ok) ==
    IF self.state = "Closed" THEN [self |-> self, res |-> Err(ErrClosed)]
    ELSE LET partition == gen_basename_for_file(self.path_generator, mfile)
         IN  IF ~partition.ok
             THEN [self |-> flush_and_init_batch(self, TRUE, io_ok).self,
                   res |-> Err(ErrPath(partition.err))]
             ELSE LET s == IF self.partition # partition.val
                           THEN LET f == flush_and_init_batch(self, TRUE, io_ok)
                                IN  IF f.res.ok
                                    THEN [self |-> [f.self EXCEPT !.partition = partition.val],
                                          res |-> f.res]
                                    ELSE f
                           ELSE IF self.batch_count = self.batch_size
                           THEN flush_and_init_batch(self, FALSE, io_ok)
                           ELSE [self |-> self, res |-> Ok(Unit)]
                  IN  IF ~s.res.ok THEN s
                      ELSE LET a == TarArchive_append_file(s.self.batch_archive,
                                                           mfile, mode, TRUE)
                           IN  IF ~a.res.ok
                               THEN [self |-> [s.self EXCEPT !.batch_archive = a.self],
                                     res |-> a.res]
                               ELSE [self |-> [s.self EXCEPT
                                                  !.batch_archive = a.self,
                                                  !.batch_count = @ + 1],
                                     res |-> Ok(Unit)]

\* BatchTarFile::append_file
BatchTarFile_append_file(self, mfile, mode, io_ok) ==
    IF self.state = "Closed" THEN [self |-> self, res |-> Err(ErrClosed)]
    ELSE LET partition == gen_basename_for_file(self.path_generator, mfile)
         IN  IF ~partition.ok
             THEN [self |-> self, res |-> Err(ErrPath(partition.err))]
             ELSE LET s == IF self.partition # partition.val
                           THEN LET f == flush_and_init_batch(self, TRUE, io_ok)
                                IN  IF f.res.ok
                                    THEN [self |-> [f.self EXCEPT !.partition = partition.val],
                                          res |-> f.res]
                                    ELSE f
                           ELSE IF self.batch_count = self.batch_size
                           THEN flush_and_init_batch(self, FALSE, io_ok)
                           ELSE [self |-> self, res |-> Ok(Unit)]
                  IN  IF ~s.res.ok THEN s
                      ELSE LET a == TarArchive_append_file(s.self.batch_archive,
                                                           mfile, mode, TRUE)
                           IN  IF ~a.res.ok
                               THEN [self |-> [s.self EXCEPT !.batch_archive = a.self],
                                     res |-> a.res]
                               ELSE [self |-> [s.self EXCEPT
                                                  !.batch_archive = a.self,
                                                  !.batch_count = @ + 1],
                                     res |-> Ok(Unit)]

\* BatchTarFile::finish; fail_at names the sink write that fails (0: none,
\* 1: the entry flush_batch writes, 2: the end-of-archive blocks)
BatchTarFile_finish(self, fail_at) ==
    IF self.state = "Open"
    THEN LET f == flush_batch(self, fail_at # 1)
         IN  IF ~f.res.ok THEN f
             ELSE LET r == Builder_finish(f.self.archive, fail_at # 2)
                  IN  [self |-> [f.self EXCEPT !.archive = r.self], res |-> r.res]
    ELSE [self |-> self, res |-> Ok(Unit)]

\* tar::Builder::into_inner: finishes if that has not been done, then hands
\* out the sink with what has been written to it
Builder_into_inner(b, io_ok) ==
    LET f == Builder_finish(b, io_ok)
    IN  IF f.res.ok THEN Ok(f.self.obj) ELSE f.res

\* TarArchive::into_inner
TarArchive_into_inner(self, io_ok) ==
    LET f == TarArchive_finish(self, io_ok)
    IN  IF f.res.ok THEN Builder_into_inner(f.self.archive, io_ok) ELSE f.res

\* TarGzFile::into_inner delegates to the archive field; the sink handed out
\* is the GzEncoder
TarGzFile_into_inner(self, io_ok) == TarArchive_into_inner(self, io_ok)

\* a gzip stream is finalized once the encoder has written its trailer
GzFinalized(written) ==
    written # <<>> /\ written[Len(written)] = [kind |-> "gz trailer"]

(***************************************************************************)
(* The backends under arbitrary call sequences (Spec).  Each action is one *)
(* call of the StorageBackend trait on the backend under test; its result  *)
(* is logged in calls together with the state the backend was in before    *)
(* the call (before), the number of records the call added to the file     *)
(* sink (wrote) and the number of paths it had generated (paths).          *)
(***************************************************************************)
TarKinds == {"TarArchive", "TarFile", "TarGzFile"}

\* the parameters the partitioned generators of the backends are built from:
\* 2 notes at length 2 give one level of one note for max_files 2, and the
\* flat layout for max_files 4
BackendNotes == <<60, 62>>
BackendConfigs ==
    {[num_notes |-> 2, melody_length |-> 2, max_files |-> 2, partition_depth |-> 1],
     [num_notes |-> 2, melody_length |-> 2, max_files |-> 4, partition_depth |-> 1]}

\* the files handed to append_file: two melodies that begin with the first
\* note, one that begins with the second, and one of length 1
Inputs ==
    {<<BackendNotes[1], BackendNotes[1]>>, <<BackendNotes[1], BackendNotes[2]>>,
     <<BackendNotes[2], BackendNotes[1]>>, <<BackendNotes[1]>>}

\* the mode arguments a run passes: None, or Some(0o600)
ModeArgs == {None, Some(384)}

GenIdle ==
    /\ notes = <<>>
    /\ melody_length = 0
    /\ max_files = 0
    /\ partition_depth = 0
    /\ path_generator = <<>>
    /\ iters = <<>>
    /\ produced = <<>>
    /\ exhausted = TRUE
    /\ basenames = <<>>

ConfigGenerator(c) ==
    PartitionPathGenerator_new(c.num_notes, c.melody_length, c.max_files,
                               c.partition_depth)

Init ==
    /\ GenIdle
    /\ kind \in TarKinds \cup {"BatchTarFile"}
    /\ mode_arg \in ModeArgs
    /\ calls = <<>>
    /\ batches = <<>>
    /\ \E c \in BackendConfigs, b \in 1..MaxBatchSize, hash \in BOOLEAN :
          IF kind = "BatchTarFile"
          THEN /\ tar = <<>>
               /\ btf = BatchTarFile_new(b, c.num_notes, c.melody_length,
                                         c.max_files, c.partition_depth, None).val
          ELSE /\ btf = <<>>
               /\ tar = TarArchive_new(IF hash THEN HashGen
                                       ELSE PartitionGen(ConfigGenerator(c).val))

\* the sink writes that have failed so far
Faults == Cardinality({i \in 1..Len(calls) : calls[i].res = Err(ErrWrite)})

\* a write may be made to fail while the run has faults left
MayFail(io_ok) == io_ok \/ Faults < MaxFaults

Tar_append_file(self, mfile, mode, io_ok) ==
    CASE kind = "TarArchive" -> TarArchive_append_file(self, mfile, mode, io_ok)
      [] kind = "TarFile" -> TarFile_append_file(self, mfile, mode, io_ok)
      [] kind = "TarGzFile" -> TarGzFile_append_file(self, mfile, mode, io_ok)

Tar_finish(self, io_ok) ==
    CASE kind = "TarArchive" -> TarArchive_finish(self, io_ok)
      [] kind = "TarFile" -> TarFile_finish(self, io_ok)
      [] kind = "TarGzFile" -> TarGzFile_finish(self, io_ok)

\* backend.append_file(mfile, mode) on a TarArchive, TarFile or TarGzFile
TarAppend ==
    /\ kind \in TarKinds
    /\ Len(calls) < MaxCalls
    /\ \E m \in Inputs, io_ok \in BOOLEAN :
          \E r \in {Tar_append_file(tar, m, mode_arg, io_ok)} :
              /\ MayFail(io_ok)
              /\ io_ok \/ r.res = Err(ErrWrite)
              /\ tar' = r.self
              /\ calls' = Append(calls,
                     [op |-> "append_file", melody |-> m, before |-> tar.state,
                      res |-> r.res, paths |-> r.paths,
                      wrote |-> Len(r.self.archive.obj) - Len(tar.archive.obj)])
    /\ UNCHANGED <<kind, btf, mode_arg, batches>>
    /\ UNCHANGED genVars

\* backend.finish() on a TarArchive, TarFile or TarGzFile
TarFinish ==
    /\ kind \in TarKinds
    /\ Len(calls) < MaxCalls
    /\ \E io_ok \in BOOLEAN :
          \E r \in {Tar_finish(tar, io_ok)} :
              /\ MayFail(io_ok)
              /\ io_ok \/ r.res = Err(ErrWrite)
              /\ tar' = r.self
              /\ calls' = Append(calls,
                     [op |-> "finish", melody |-> <<>>, before |-> tar.state,
                      res |-> r.res, paths |-> 0,
                      wrote |-> Len(r.self.archive.obj) - Len(tar.archive.obj)])
    /\ UNCHANGED <<kind, btf, mode_arg, batches>>
    /\ UNCHANGED genVars

\* the batches of the outer entries a call has written: a call writes at most
\* one entry, flushed from the batch archive as it was before the call
BatchesAfter(old, new) ==
    IF \E i \in (Len(old.archive.obj) + 1)..Len(new.archive.obj) :
           new.archive.obj[i].kind = "entry"
    THEN Append(batches, [partition |-> old.partition,
                          batch_number |-> old.batch_number,
                          files |-> FilesOf(old.batch_archive.archive.obj)])
    ELSE batches

\* backend.append_file(mfile, mode) on a BatchTarFile
BatchAppend ==
    /\ kind = "BatchTarFile"
    /\ Len(calls) < MaxCalls
    /\ \E m \in Inputs, io_ok \in BOOLEAN :
          \E r \in {BatchTarFile_append_file(btf, m, mode_arg, io_ok)} :
              /\ MayFail(io_ok)
              /\ io_ok \/ r.res = Err(ErrWrite)
              /\ btf' = r.self
              /\ batches' = BatchesAfter(btf, r.self)
              /\ calls' = Append(calls,
                     [op |-> "append_file", melody |-> m, before |-> btf.state,
                      res |-> r.res, paths |-> 0,
                      wrote |-> Len(r.self.archive.obj) - Len(btf.archive.obj)])
    /\ UNCHANGED <<kind, tar, mode_arg>>
    /\ UNCHANGED genVars

\* backend.finish() on a BatchTarFile
BatchFinish ==
    /\ kind = "BatchTarFile"
    /\ Len(calls) < MaxCalls
    /\ \E fail_at \in 0..2 :
          \E r \in {BatchTarFile_finish(btf, fail_at)} :
              /\ MayFail(fail_at = 0)
              /\ fail_at = 0 \/ r.res = Err(ErrWrite)
              /\ btf' = r.self
              /\ batches' = BatchesAfter(btf, r.self)
              /\ calls' = Append(calls,
                     [op |-> "finish", melody |-> <<>>, before |-> btf.state,
                      res |-> r.res, paths |-> 0,
                      wrote |-> Len(r.self.archive.obj) - Len(btf.archive.obj)])
    /\ UNCHANGED <<kind, tar, mode_arg>>
    /\ UNCHANGED genVars

Next == TarAppend \/ TarFinish \/ BatchAppend \/ BatchFinish

Spec == Init /\ [][Next]_vars

(***************************************************************************)
(* Claims about the backends, checked under Spec.                          *)
(***************************************************************************)
IsBatch == kind = "BatchTarFile"

\* the storage state of the backend under test
BackendState == IF IsBatch THEN btf.state ELSE tar.state

\* the entries of the outer archive of the BatchTarFile, in the order written
OuterEntries == SelectSeq(btf.archive.obj, LAMBDA r : r.kind = "entry")

\* the directory part of a path: what stands before its last separator
Dirname(path) ==
    IF \E i \in 1..Len(path) : path[i] = Sep
    THEN LET last == CHOOSE i \in 1..Len(path) :
                        /\ path[i] = Sep
                        /\ \A j \in (i + 1)..Len(path) : path[j] # Sep
         IN  SubSeq(path, 1, last - 1)
    ELSE <<>>

\* the file name of a path: what stands after its last separator
Filename(path) == SubSeq(path, Len(Dirname(path)) + 2, Len(path))

DigitValue(c) == CHOOSE d \in 0..9 : DigitChar(d) = c

RECURSIVE ParseNat(_)
ParseNat(digits) ==
    IF digits = <<>> THEN 0
    ELSE 10 * ParseNat(SubSeq(digits, 1, Len(digits) - 1))
         + DigitValue(digits[Len(digits)])

\* the N of an outer entry named <dir><sep>batch<N>.tar.gz
BatchNumberOf(path) ==
    LET name == Filename(path) IN ParseNat(SubSeq(name, 2, Len(name) - 1))

\* the partition basename the backend computes for a melody
BasenameOf(m) == gen_basename_for_file(btf.path_generator, m).val

\* how often x occurs in the sequence s
Occurrences(s, x) == Cardinality({i \in 1..Len(s) : s[i] = x})

\* C3: every outer entry written holds at most batch_size inner files, and all
\* of them have the partition basename that is the directory of the entry's name.
C3_BatchBoundedAndOnePartition ==
    IsBatch =>
        \A i \in 1..Len(OuterEntries) :
            LET held == FilesOf(OuterEntries[i].data)
                dir == Dirname(OuterEntries[i].path)
            IN  /\ Len(batches[i].files) <= btf.batch_size
                /\ Len(held) <= btf.batch_size
                /\ \A k \in 1..Len(batches[i].files) :
                       BasenameOf(batches[i].files[k]) = dir
                /\ \A k \in 1..Len(held) : BasenameOf(held[k]) = dir

\* an entry of a non-empty partition was flushed from a full batch of two files
C3_Witness ==
    /\ IsBatch
    /\ btf.batch_size = 2
    /\ \E i \in 1..Len(OuterEntries) :
          /\ Len(batches[i].files) = 2
          /\ Dirname(OuterEntries[i].path) # <<>>

\* the entries of each partition are numbered 0, 1, 2, ... in the order written
NumberedInOrder ==
    \A i \in 1..Len(OuterEntries) :
        BatchNumberOf(OuterEntries[i].path) =
            Cardinality({j \in 1..(i - 1) :
                            Dirname(OuterEntries[j].path) = Dirname(OuterEntries[i].path)})

NoIOError ==
    \A i \in 1..Len(calls) : calls[i].res.ok \/ calls[i].res.err.variant # "IOError"

\* the basenames of the melodies of the right length appended so far, in order
AppendedBasenames ==
    LET right == SelectSeq(calls, LAMBDA c :
                     c.op = "append_file" /\ Len(c.melody) = btf.path_generator.melody_length)
    IN  [i \in 1..Len(right) |-> BasenameOf(right[i].melody)]

\* once the basename has changed, the old one does not come back
NoRevisit ==
    \A i, j, k \in 1..Len(AppendedBasenames) :
        (i < j /\ j < k /\ AppendedBasenames[i] # AppendedBasenames[j])
            => AppendedBasenames[k] # AppendedBasenames[i]

RECURSIVE HeldBy(_)
HeldBy(entries) ==
    IF entries = <<>> THEN <<>>
    ELSE FilesOf(Head(entries).data) \o HeldBy(Tail(entries))

\* the melodies whose append_file has returned Ok so far
AppendedOk ==
    LET okc == SelectSeq(calls, LAMBDA c : c.op = "append_file" /\ c.res.ok)
    IN  [i \in 1..Len(okc) |-> okc[i].melody]

\* C5: whenever finish() returns Ok, every melody whose append_file returned Ok
\* is held by exactly one outer entry.
C5_FinishKeepsEveryMelody ==
    (IsBatch /\ calls # <<>> /\ calls[Len(calls)].op = "finish" /\ calls[Len(calls)].res.ok)
        => \A m \in Inputs :
               Occurrences(HeldBy(OuterEntries), m) = Occurrences(AppendedOk, m)

\* C6: once finish() has returned, the backend is Closed, and stays Closed.
C6_ClosedAfterFinish ==
    (\E i \in 1..Len(calls) : calls[i].op = "finish") => BackendState = "Closed"

\* C7: an append_file made after a finish() that returned Ok returns an error
\* and writes nothing to the outer archive.
C7_AppendAfterFinishFails ==
    IsBatch =>
        \A i, j \in 1..Len(calls) :
            (i < j /\ calls[i].op = "finish" /\ calls[i].res.ok
                   /\ calls[j].op = "append_file")
                => (~calls[j].res.ok /\ calls[j].wrote = 0)

\* C8: append_file on a Closed TarArchive, TarFile or TarGzFile returns the
\* 'closed for writing' I/O error, generates no path and writes nothing.
C8_ClosedAppendRejected ==
    kind \in TarKinds =>
        \A i \in 1..Len(calls) :
            (calls[i].op = "append_file" /\ calls[i].before = "Closed")
                => /\ calls[i].res = Err(ErrClosed)
                   /\ calls[i].paths = 0
                   /\ calls[i].wrote = 0

\* a TarGzFile has rejected a file of the right length after finish()
C8_Witness ==
    /\ kind = "TarGzFile"
    /\ \E i \in 1..Len(calls) :
          /\ calls[i].op = "append_file"
          /\ calls[i].before = "Closed"
          /\ Len(calls[i].melody) = 2
          /\ calls[i].res = Err(ErrClosed)

\* C9: a finish() that follows a finish() that returned Ok returns Ok and
\* writes nothing more: no outer entry, no end-of-archive blocks.
C9_FinishIdempotent ==
    \A i \in 1..(Len(calls) - 1) :
        (calls[i].op = "finish" /\ calls[i].res.ok /\ calls[i + 1].op = "finish")
            => (calls[i + 1].res.ok /\ calls[i + 1].wrote = 0)

\* a BatchTarFile was finished twice after a successful append
C9_Witness ==
    /\ IsBatch
    /\ Len(calls) >= 3
    /\ calls[1].op = "append_file" /\ calls[1].res.ok
    /\ calls[2].op = "finish" /\ calls[2].res.ok /\ calls[2].wrote = 2
    /\ calls[3].op = "finish" /\ calls[3].res.ok

\* C10: an outer entry is named <partition><sep>batch<N>.tar.gz, and
\* batch<N>.tar.gz with no leading separator when the partition is empty.
C10_EntryPath ==
    IsBatch =>
        \A i \in 1..Len(OuterEntries) :
            OuterEntries[i].path =
                IF batches[i].partition = <<>>
                THEN <<"batch">> \o ToStr(batches[i].batch_number) \o <<".tar.gz">>
                ELSE batches[i].partition \o <<Sep>> \o <<"batch">>
                     \o ToStr(batches[i].batch_number) \o <<".tar.gz">>

\* C11: the mode written to the header of an entry is the supplied one, and
\* octal 644 (decimal 420) when none is supplied; for a TarArchive entry and for
\* an outer entry of a BatchTarFile.
C11_DefaultModeOctal ==
    /\ kind \in TarKinds =>
           \A i \in 1..Len(tar.archive.obj) :
               tar.archive.obj[i].kind = "entry" =>
                   tar.archive.obj[i].mode =
                       IF mode_arg = None THEN 420 ELSE mode_arg[1]
    /\ IsBatch =>
           \A i \in 1..Len(OuterEntries) :
               OuterEntries[i].mode =
                   IF btf.batch_mode = None THEN 420 ELSE btf.batch_mode[1]

\* C13: when finish() of a TarGzFile has returned Ok, the gzip trailer has been
\* written after the end-of-archive blocks, and the encoder into_inner() hands
\* out is finalized.
C13_GzFinalizedAtFinish ==
    (/\ kind = "TarGzFile"
     /\ calls # <<>>
     /\ calls[Len(calls)].op = "finish"
     /\ calls[Len(calls)].res.ok)
        => /\ GzFinalized(tar.archive.obj)
           /\ GzFinalized(TarGzFile_into_inner(tar, TRUE).val)

\* C20: after an append_file that returned an I/O error, every later
\* append_file on the same backend returns an error and writes nothing.
C20_ClosedAfterIOError ==
    \A i, j \in 1..Len(calls) :
        (/\ i < j
         /\ calls[i].op = "append_file"
         /\ ~calls[i].res.ok
         /\ calls[i].res.err.variant = "IOError"
         /\ calls[j].op = "append_file")
            => (~calls[j].res.ok /\ calls[j].wrote = 0)

(***************************************************************************)
(* The constructor of BatchTarFile (SpecNew): one call of BatchTarFile::new *)
(* with arguments drawn from small sets, logged in calls with its result   *)
(* and with whether the target file was opened.                            *)
(***************************************************************************)
\* the batch_mode arguments drawn: None, 0, 0o644, 0o777, 0o1000, and the
\* decimal values 644, 777 and 778
BatchModes ==
    {None, Some(0), Some(420), Some(511), Some(512), Some(644), Some(777), Some(778)}

ErrOpen == [variant |-> "IOError", detail |-> "open failed"]

\* BatchTarFile::new with the target file: File::open fails unless the file
\* exists (target_ok); opened tells whether File::open was called
BatchTarFile_new_at(target_ok, batch_size, num_notes, mlen, maxf, depth, batch_mode) ==
    LET r == BatchTarFile_new(batch_size, num_notes, mlen, maxf, depth, batch_mode)
    IN  IF ~r.ok /\ r.err.detail = "Invalid file mode"
        THEN [res |-> r, opened |-> FALSE]
        ELSE IF ~target_ok
        THEN [res |-> Err(ErrOpen), opened |-> TRUE]
        ELSE [res |-> r, opened |-> TRUE]

NewInit ==
    /\ GenIdle
    /\ kind = "new"
    /\ tar = <<>>
    /\ btf = <<>>
    /\ mode_arg \in BatchModes
    /\ batches = <<>>
    /\ calls = <<>>

\* BatchTarFile::new(target_path, batch_size, num_notes, melody_length,
\* max_files, partition_depth, None, mode_arg)
BatchNew ==
    /\ kind = "new"
    /\ \E target_ok \in BOOLEAN, batch_size \in 1..MaxBatchSize, num_notes \in 1..2,
          mlen \in 1..MaxLen, maxf \in MaxFilesSet, depth \in 1..MaxDepth :
          \E r \in {BatchTarFile_new_at(target_ok, batch_size, num_notes, mlen,
                                        maxf, depth, mode_arg)} :
              /\ kind' = IF r.res.ok THEN "BatchTarFile" ELSE "failed"
              /\ btf' = IF r.res.ok THEN r.res.val ELSE <<>>
              /\ calls' = <<[op |-> "new", target_ok |-> target_ok,
                             batch_size |-> batch_size, num_notes |-> num_notes,
                             melody_length |-> mlen, max_files |-> maxf,
                             partition_depth |-> depth, batch_mode |-> mode_arg,
                             res |-> IF r.res.ok THEN Ok(Unit) ELSE r.res,
                             opened |-> r.opened]>>
    /\ UNCHANGED <<tar, mode_arg, batches>>
    /\ UNCHANGED genVars

SpecNew == NewInit /\ [][BatchNew]_vars

\* C12: BatchTarFile::new rejects every supplied batch_mode above octal 777
\* (decimal 511), before it opens the target file, and rejects no supplied
\* batch_mode in 0..511 for its value.
C12_ModeValidatedInConstructor ==
    \A i \in 1..Len(calls) :
        calls[i].op = "new" =>
            LET c == calls[i]
            IN  /\ (c.batch_mode # None /\ c.batch_mode[1] > 511)
                       => (~c.res.ok /\ ~c.opened)
                /\ (c.batch_mode # None /\ c.batch_mode[1] <= 511)
                       => (c.res.ok \/ c.res.err.detail # "Invalid file mode")

\* the step is an append_file of m that returned Ok on a BatchTarFile whose
\* current partition differs from the basename of m
BoundaryAppend(m) ==
    /\ IsBatch
    /\ Len(calls') = Len(calls) + 1
    /\ calls'[Len(calls')].op = "append_file"
    /\ calls'[Len(calls')].melody = m
    /\ calls'[Len(calls')].res.ok
    /\ gen_basename_for_file(btf.path_generator, m).ok
    /\ BasenameOf(m) # btf.partition

\* the batch that is pending in the batch archive
PendingBatch ==
    [partition |-> btf.partition, batch_number |-> btf.batch_number,
     files |-> FilesOf(btf.batch_archive.archive.obj)]

\* what a boundary append of m does: the pending batch is an outer entry
\* under the old partition and the old batch_number, and the new partition
\* starts with batch_number = 0 and batch_count = 1
BoundaryHandled(m) ==
    /\ \E i \in 1..Len(batches') :
           /\ batches'[i] = PendingBatch
           /\ OuterEntries'[i].path = BatchPath(btf.partition, btf.batch_number)
    /\ btf'.partition = BasenameOf(m)
    /\ btf'.batch_number = 0
    /\ btf'.batch_count = 1

\* C23: batch_count never exceeds batch_size; and an append whose basename
\* differs from the current partition leaves the pending batch written as an
\* outer entry under the old partition and the old batch_number, and starts
\* the new partition with batch_number = 0 and batch_count = 1
C23_BatchCountAndBoundary ==
    /\ [](IsBatch => btf.batch_count <= btf.batch_size)
    /\ [][\A m \in Inputs : BoundaryAppend(m) => BoundaryHandled(m)]_vars

\* TarFile::new opens the target with std::fs::File::open, which opens a
\* file for reading only: a write to it fails
OpenedForWriting == FALSE

\* the BufWriter between the builder of a TarFile and its target file, after
\* the records the builder has written
TarFile_BufWriter(self) ==
    BufWriter_write_all([buf |-> <<>>, inner |-> <<>>],
                        [i \in 1..Len(self.archive.obj) |->
                            [rec |-> self.archive.obj[i], bytes |-> RecordBytes]], 1)

\* the records in the target file once the TarFile has been dropped: the
\* BufWriter hands on its buffer when it is dropped, and ignores the error of
\* a write that fails
TarFile_target(self) ==
    LET w == TarFile_BufWriter(self)
        handed == w.inner \o w.buf
    IN  IF OpenedForWriting THEN [i \in 1..Len(handed) |-> handed[i].rec] ELSE <<>>

\* the run of the scenario: a TarFile with the hash-only generator, one
\* append of the melody [60] and one finish(), both Ok
OneMelodyRun ==
    /\ kind = "TarFile"
    /\ tar.path_generator = HashGen
    /\ Len(calls) = 2
    /\ calls[1].op = "append_file" /\ calls[1].melody = <<60>> /\ calls[1].res.ok
    /\ calls[2].op = "finish" /\ calls[2].res.ok

\* the archive of the scenario: the entry "60.mid" and the end-of-archive blocks
OneMelodyArchive(mode) ==
    <<[kind |-> "entry", path |-> <<"6", "0", ".mid">>, mode |-> mode,
       size |-> MIDIFile_gen_size(<<60>>), data |-> MIDIFile_gen_file(<<60>>)],
      EndOfArchive>>

\* C25: a TarFile with the hash-only path generator that was given the one
\* melody [60] and then finished holds exactly the entry "60.mid", with the
\* size of the MIDI file in its header, followed by the end-of-archive blocks
C25_OneEntryArchive ==
    OneMelodyRun =>
        \E mode \in {DefaultMode, 384} : TarFile_target(tar) = OneMelodyArchive(mode)

\* the end-of-archive blocks have reached the sink of the TarArchive
FooterWritten == \E i \in 1..Len(tar.archive.obj) : tar.archive.obj[i] = EndOfArchive

\* C34: TarArchive.finish() returns Ok only if the tar end-of-archive blocks
\* have been written to the sink; after a first finish() that failed with an
\* I/O error while writing them, a later finish() does not return Ok without
\* writing them
C34_FinishOkOnlyWithFooter ==
    kind = "TarArchive" =>
        \A i \in 1..Len(calls) :
            (calls[i].op = "finish" /\ calls[i].res.ok) => FooterWritten

\* the step is an append_file on the BatchTarFile that returned
\* MelodyLengthMismatch
MismatchAppend ==
    /\ IsBatch
    /\ Len(calls') = Len(calls) + 1
    /\ calls'[Len(calls')].op = "append_file"
    /\ calls'[Len(calls')].res = Err(ErrPath("MelodyLengthMismatch"))

\* C35: when BatchTarFile.append_file fails with MelodyLengthMismatch the
\* backend is unchanged: partition, batch_count, batch_number, state and the
\* pending inner archive keep their values and no outer entry is emitted
C35_MismatchLeavesBackendUnchanged ==
    [][MismatchAppend =>
          /\ btf'.partition = btf.partition
          /\ btf'.batch_count = btf.batch_count
          /\ btf'.batch_number = btf.batch_number
          /\ btf'.state = btf.state
          /\ btf'.batch_archive = btf.batch_archive
          /\ btf'.archive = btf.archive
          /\ batches' = batches]_vars

\* a file of the wrong length was refused while melodies were pending
C35_Witness ==
    /\ IsBatch
    /\ calls # <<>>
    /\ calls[Len(calls)].op = "append_file"
    /\ calls[Len(calls)].res = Err(ErrPath("MelodyLengthMismatch"))
    /\ btf.batch_count > 0
    /\ FilesOf(btf.batch_archive.archive.obj) # <<>>

\* the step is an append_file on the BatchTarFile that returned Ok
OkAppend ==
    /\ IsBatch
    /\ Len(calls') = Len(calls) + 1
    /\ calls'[Len(calls')].op = "append_file"
    /\ calls'[Len(calls')].res.ok

\* the outer entries the step has emitted
Emitted == Len(OuterEntries') - Len(OuterEntries)

\* the cases in which an append of m is to emit an outer entry: the basename
\* changes while melodies are pending, or it is unchanged and the batch is full
EmitsFor(m) ==
    \/ BasenameOf(m) # btf.partition /\ PendingBatch.files # <<>>
    \/ BasenameOf(m) = btf.partition /\ btf.batch_count = btf.batch_size

\* C36: a single BatchTarFile.append_file emits at most one outer entry:
\* exactly one when the basename changes while melodies are pending or when
\* the basename is unchanged and batch_count = batch_size, and none
\* otherwise; a basename change that coincides with a full batch emits one
\* entry, not two, and never an entry with zero inner files
C36_AtMostOneEntryPerAppend ==
    [][OkAppend =>
          LET m == calls'[Len(calls')].melody
          IN  /\ Emitted <= 1
              /\ Emitted = 1 <=> EmitsFor(m)
              /\ Emitted = 1 => batches'[Len(batches')].files # <<>>]_vars

\* C37: in BatchTarFile appended order is preserved: reading the outer
\* entries in the order they were emitted and, inside each, the inner entries
\* in order, gives the successfully appended melodies in exactly the order
\* append_file was called
C37_AppendedOrderPreserved ==
    (IsBatch /\ calls # <<>> /\ calls[Len(calls)].op = "finish" /\ calls[Len(calls)].res.ok)
        => HeldBy(OuterEntries) = AppendedOk

(***************************************************************************)
(* Claims about the enumeration pipeline, checked under SpecGen.           *)
(***************************************************************************)
\* how many of the melodies yielded so far were mapped to basename b
FilesIn(b) == Cardinality({i \in 1..Len(basenames) : basenames[i] = b})

\* C1: for every generator new() returns for k distinct pitches, no basename
\* receives more than max_files of the enumerated melodies.
C1_AtMostMaxFilesPerBasename ==
    (path_generator.ok /\ Distinct(notes)) =>
        \A i \in 1..Len(basenames) : FilesIn(basenames[i]) <= max_files

\* the i-th melody (from 0) in lexicographic order under the index order of
\* notes: position j holds digit j of i written in base k, most significant first
LexMelody(i) ==
    [j \in 1..melody_length |->
        notes[((i \div Pow(Len(notes), melody_length - j)) % Len(notes)) + 1]]

\* C2: for k distinct pitches gen_sequences yields exactly k^L melodies, each of
\* length L, pairwise distinct, in lexicographic order, and then ends.
C2_EnumeratesLexicographically ==
    Distinct(notes) =>
        /\ \A i \in 1..Len(produced) :
              /\ Len(produced[i]) = melody_length
              /\ produced[i] = LexMelody(i - 1)
        /\ \A i, j \in 1..Len(produced) : i # j => produced[i] # produced[j]
        /\ Len(produced) <= Pow(Len(notes), melody_length)
        /\ exhausted => Len(produced) = Pow(Len(notes), melody_length)

\* the enumeration of 3 pitches at length 3 has ended after 27 melodies
C2_Witness ==
    /\ exhausted
    /\ Distinct(notes)
    /\ Len(notes) = 3
    /\ melody_length = 3
    /\ Len(produced) = 27

RECURSIVE SplitPath(_)
\* the components of a path: the strings between its separators
SplitPath(path) ==
    IF \E i \in 1..Len(path) : path[i] = Sep
    THEN LET first == CHOOSE i \in 1..Len(path) :
                         /\ path[i] = Sep
                         /\ \A j \in 1..(i - 1) : path[j] # Sep
         IN  <<SubSeq(path, 1, first - 1)>> \o SplitPath(SubSeq(path, first + 1, Len(path)))
    ELSE <<path>>

\* the p-th partition window of a melody: the pitches the generator slices
Window(g, melody, p) ==
    SubSeq(melody, g.partition_length * (p - 1) + 1, g.partition_length * p)

\* C18: every partition window of a basename renders each of its P pitches as
\* two decimal characters, so it has 2 * P characters, and windows of different
\* pitches never render to the same string.
C18_TwoCharactersPerPitch ==
    path_generator.ok =>
        LET g == path_generator.val
        IN  \A i \in 1..Len(basenames) :
                LET wi == SplitPath(basenames[i].val)
                IN  /\ Len(wi) = g.partition_depth
                    /\ \A p \in 1..Len(wi) : Len(wi[p]) = 2 * g.partition_length
                    /\ \A j \in 1..Len(basenames) :
                           LET wj == SplitPath(basenames[j].val)
                           IN  \A p \in 1..Len(wi), q \in 1..Len(wj) :
                                   wi[p] = wj[q]
                                       => Window(g, produced[i], p) = Window(g, produced[j], q)

\* C19: in the order of gen_sequences, once the basename has changed from a
\* value to another, that value does not occur again.
C19_BasenameNeverReturns ==
    path_generator.ok =>
        \A i, j, k \in 1..Len(basenames) :
            (i < j /\ j < k /\ basenames[i] # basenames[j])
                => basenames[k] # basenames[i]

(***************************************************************************)
(* The path generator on its own (SpecPath): PartitionPathGenerator::new   *)
(* is called with arguments drawn from small sets, and the generator it    *)
(* returns is asked for the basename and the path of files whose melodies  *)
(* have any length from 0 to one more than the longest melody length.      *)
(* path_generator is None before the call and Some(result) after it;       *)
(* produced holds the melody last asked about and basenames the answers.   *)
(***************************************************************************)
\* the melodies over the notes of the run, of every length 0..MaxLen + 1
PathMelodies ==
    UNION {[1..n -> {notes[i] : i \in 1..Len(notes)}] : n \in 0..(MaxLen + 1)}

PathInit ==
    /\ notes \in NoteVecs
    /\ melody_length \in 1..MaxLen
    /\ max_files \in MaxFilesSet
    /\ partition_depth \in 0..MaxDepth
    /\ path_generator = None
    /\ iters = <<>>
    /\ produced = <<>>
    /\ exhausted = FALSE
    /\ basenames = <<>>
    /\ BackendIdle

\* PartitionPathGenerator::new(num_notes, melody_length, max_files, partition_depth)
PathNew ==
    /\ path_generator = None
    /\ path_generator' = Some(PartitionPathGenerator_new(Len(notes), melody_length,
                                                         max_files, partition_depth))
    /\ UNCHANGED <<notes, melody_length, max_files, partition_depth,
                   iters, produced, exhausted, basenames>>
    /\ UNCHANGED backendVars

\* gen_basename_for_file and gen_path_for_file on the generator returned
PathQuery ==
    /\ path_generator # None
    /\ path_generator[1].ok
    /\ \E m \in PathMelodies :
          /\ produced' = <<m>>
          /\ basenames' = <<[basename |-> gen_basename_for_file(path_generator[1].val, m),
                             path |-> Partition_gen_path_for_file(path_generator[1].val, m)]>>
    /\ UNCHANGED <<notes, melody_length, max_files, partition_depth,
                   path_generator, iters, exhausted>>
    /\ UNCHANGED backendVars

PathNext == PathNew \/ PathQuery

SpecPath == PathInit /\ [][PathNext]_vars

\* the call has been made
Built == path_generator # None

\* the flat-layout shortcut of new() applies to the arguments of the run
FlatArgs == Len(notes) = 1 \/ Pow(Len(notes), melody_length) <= max_files

\* C14: new(k, L, M, D) returns PartitionDepthLongerThanMelody exactly when
\* D > L, whether or not the flat-layout shortcut would apply.
C14_DepthErrorIffDeeperThanMelody ==
    Built =>
        ((partition_depth > melody_length)
            <=> (/\ ~path_generator[1].ok
                 /\ path_generator[1].err = "PartitionDepthLongerThanMelody"))

\* new() has refused a depth above the melody length for a single note
C14_Witness ==
    /\ Built
    /\ Len(notes) = 1
    /\ partition_depth > melody_length
    /\ path_generator[1] = Err("PartitionDepthLongerThanMelody")

\* C15: a generator new() returns has partition_depth * partition_length <=
\* melody_length, and its gen_basename_for_file never slices past the end of a
\* melody of that length; new() returns PartitionsLongerThanMelody exactly when
\* the computed length would break this.
C15_PartitionsFitMelody ==
    Built =>
        LET r == path_generator[1]
        IN  /\ r.ok => r.val.partition_depth * r.val.partition_length <= r.val.melody_length
            /\ \A i \in 1..Len(basenames) :
                   Len(produced[i]) = melody_length => basenames[i].basename.ok
            /\ (~r.ok /\ r.err = "PartitionsLongerThanMelody")
                   <=> (/\ partition_depth <= melody_length
                        /\ ~FlatArgs
                        /\ partition_depth
                             * CeilLog(Pow(Len(notes), melody_length), max_files,
                                       Pow(Len(notes), partition_depth))
                           > melody_length)

\* a generator whose partitions take the whole melody has sliced a melody of
\* the full length
C15_Witness ==
    /\ Built
    /\ path_generator[1].ok
    /\ ~FlatArgs
    /\ path_generator[1].val.partition_depth * path_generator[1].val.partition_length
         = melody_length
    /\ basenames # <<>>
    /\ Len(produced[1]) = melody_length
    /\ basenames[1].basename.ok

\* C16: when k = 1 or k^L <= M, and D <= L, new() returns a generator with
\* partition_depth 1 and partition_length 0 whatever D was, and for a melody of
\* length L the basename is empty and the path is <hash>.mid.
C16_FlatLayout ==
    (Built /\ FlatArgs /\ partition_depth <= melody_length) =>
        /\ path_generator[1] = Ok([melody_length |-> melody_length,
                                   partition_depth |-> 1,
                                   partition_length |-> 0])
        /\ \A i \in 1..Len(basenames) :
               Len(produced[i]) = melody_length =>
                   /\ basenames[i].basename = Ok(<<>>)
                   /\ basenames[i].path = Ok(gen_hash(produced[i]) \o <<".mid">>)

\* a flat generator asked for with depth 2 has given the path of a melody
C16_Witness ==
    /\ Built
    /\ FlatArgs
    /\ partition_depth = 2
    /\ melody_length >= 2
    /\ basenames # <<>>
    /\ Len(produced[1]) = melody_length
    /\ basenames[1].path = Ok(gen_hash(produced[1]) \o <<".mid">>)

\* C17: a generator built for melody length L answers MelodyLengthMismatch for
\* every melody of another length, at every partition depth, and answers with
\* a basename and a path for every melody of length L.
C17_LengthMismatch ==
    \A i \in 1..Len(basenames) :
        IF Len(produced[i]) # melody_length
        THEN /\ basenames[i].basename = Err("MelodyLengthMismatch")
             /\ basenames[i].path = Err("MelodyLengthMismatch")
        ELSE basenames[i].basename.ok /\ basenames[i].path.ok

\* a generator of depth 0 has refused a melody that is too short
C17_Witness ==
    /\ Built
    /\ path_generator[1].ok
    /\ path_generator[1].val.partition_depth = 0
    /\ basenames # <<>>
    /\ Len(produced[1]) < melody_length
    /\ basenames[1].path = Err("MelodyLengthMismatch")

(***************************************************************************)
(* The write loop (SpecLoop): write_melodies_to_backend drives a backend   *)
(* with every melody of gen_sequences and then finishes it.  calls logs    *)
(* the backend calls the loop makes; the loop has ended once exhausted is  *)
(* TRUE, and what it printed last follows from the result of finish().     *)
(***************************************************************************)
\* the note vectors and melody lengths the loop is run with
LoopNoteVecs == {<<60>>, <<60, 62>>}
LoopLengths == {1, 2}

LoopInit ==
    /\ notes \in LoopNoteVecs
    /\ melody_length \in LoopLengths
    /\ max_files \in MaxFilesSet
    /\ partition_depth = 1
    /\ path_generator =
           PartitionPathGenerator_new(Len(notes), melody_length, max_files, partition_depth)
    /\ iters = gen_sequences(notes, melody_length)
    /\ produced = <<>>
    /\ exhausted = FALSE
    /\ basenames = <<>>
    /\ kind \in TarKinds \cup {"BatchTarFile"}
    /\ mode_arg = None
    /\ calls = <<>>
    /\ batches = <<>>
    /\ \E b \in 1..MaxBatchSize, hash \in BOOLEAN :
          IF kind = "BatchTarFile"
          THEN /\ tar = <<>>
               /\ btf = BatchTarFile_new(b, Len(notes), melody_length,
                                         max_files, partition_depth, None).val
          ELSE /\ btf = <<>>
               /\ tar = TarArchive_new(IF hash THEN HashGen
                                       ELSE PartitionGen(path_generator.val))

\* backend.append_melody(melody, None): the file is built from the melody and
\* handed to append_file (StorageBackend::append_melody, storage.rs)
Loop_append_melody(melody, mode, io_ok) ==
    IF kind = "BatchTarFile"
    THEN BatchTarFile_append_file(btf, melody, mode, io_ok)
    ELSE Tar_append_file(tar, melody, mode, io_ok)

\* backend.finish() of the backend the loop writes to
Loop_finish(fail_at) ==
    IF kind = "BatchTarFile"
    THEN BatchTarFile_finish(btf, fail_at)
    ELSE Tar_finish(tar, fail_at = 0)

\* one turn of the loop: the iterator yields a melody, which is appended; an
\* error is printed as a warning and the loop goes on
LoopAppend ==
    /\ ~exhausted
    /\ \E it \in {IterateLast(iters, "StartOfIter", Len(notes))}, io_ok \in BOOLEAN :
          /\ it.res
          /\ iters' = it.its
          /\ produced' = Append(produced, CurrMelody(it.its, notes))
          /\ \E r \in {Loop_append_melody(CurrMelody(it.its, notes), None, io_ok)} :
                /\ MayFail(io_ok)
                /\ io_ok \/ r.res = Err(ErrWrite)
                /\ IF kind = "BatchTarFile"
                   THEN /\ btf' = r.self
                        /\ batches' = BatchesAfter(btf, r.self)
                        /\ tar' = tar
                   ELSE /\ tar' = r.self
                        /\ UNCHANGED <<btf, batches>>
                /\ calls' = Append(calls,
                       [op |-> "append_file", melody |-> CurrMelody(it.its, notes),
                        before |-> BackendState, res |-> r.res,
                        paths |-> IF kind = "BatchTarFile" THEN 0 ELSE r.paths,
                        wrote |-> Len(r.self.archive.obj)
                                  - Len((IF kind = "BatchTarFile" THEN btf ELSE tar).archive.obj)])
    /\ UNCHANGED <<notes, melody_length, max_files, partition_depth, path_generator,
                   exhausted, basenames, kind, mode_arg>>

\* the iterator is exhausted: the loop ends and backend.finish() is called; an
\* error ends the process with exit(1), success prints "Finished writing"
LoopFinish ==
    /\ ~exhausted
    /\ \E it \in {IterateLast(iters, "StartOfIter", Len(notes))}, fail_at \in 0..2 :
          /\ ~it.res
          /\ iters' = it.its
          /\ exhausted' = TRUE
          /\ kind \in TarKinds => fail_at < 2
          /\ \E r \in {Loop_finish(fail_at)} :
                /\ MayFail(fail_at = 0)
                /\ fail_at = 0 \/ r.res = Err(ErrWrite)
                /\ IF kind = "BatchTarFile"
                   THEN /\ btf' = r.self
                        /\ batches' = BatchesAfter(btf, r.self)
                        /\ tar' = tar
                   ELSE /\ tar' = r.self
                        /\ UNCHANGED <<btf, batches>>
                /\ calls' = Append(calls,
                       [op |-> "finish", melody |-> <<>>, before |-> BackendState,
                        res |-> r.res, paths |-> 0,
                        wrote |-> Len(r.self.archive.obj)
                                  - Len((IF kind = "BatchTarFile" THEN btf ELSE tar).archive.obj)])
    /\ UNCHANGED <<notes, melody_length, max_files, partition_depth, path_generator,
                   produced, basenames, kind, mode_arg>>

LoopNext == LoopAppend \/ LoopFinish

SpecLoop == LoopInit /\ [][LoopNext]_vars

\* the loop has ended and printed "Finished writing melodies to storage backend"
ReportedFinished ==
    /\ exhausted
    /\ calls # <<>>
    /\ calls[Len(calls)].op = "finish"
    /\ calls[Len(calls)].res.ok

\* the loop has ended with exit(1)
ExitedWithError ==
    /\ exhausted
    /\ calls # <<>>
    /\ calls[Len(calls)].op = "finish"
    /\ ~calls[Len(calls)].res.ok

\* the calls of append_melody that returned an error
FailedAppends == {i \in 1..Len(calls) : calls[i].op = "append_file" /\ ~calls[i].res.ok}

\* C21: after the first append_melody that returns an error the loop appends
\* no further melody, and the run does not end by printing that writing
\* finished
C21_AbandonedAfterError ==
    \A i \in FailedAppends :
        /\ \A j \in (i + 1)..Len(calls) : calls[j].op # "append_file"
        /\ ~ReportedFinished

\* the write loop ran to its end without an I/O error
CompletedRun == ReportedFinished /\ FailedAppends = {}

\* C22: with batch_size = 1, once every melody has been appended and finish()
\* has returned, every batch written as an outer entry holds exactly one
\* file, in the flat and in the partitioned layout
C22_OneFilePerEntry ==
    (IsBatch /\ btf.batch_size = 1 /\ CompletedRun)
        => /\ Len(batches) = Len(OuterEntries)
           /\ \A i \in 1..Len(batches) : Len(batches[i].files) = 1

(***************************************************************************)
(* The legacy utilities (utils.rs).                                        *)
(*                                                                         *)
(* SpecSize: utils::gen_partition_size is called once with arguments drawn *)
(* from SizeInputs, and PartitionPathGenerator::new with the same          *)
(* arguments where num_notes^length is an integer single precision holds   *)
(* exactly.  notes holds num_notes notes; calls holds the results.         *)
(***************************************************************************)
\* a panic!, in the shape of the errors of the backends
Panic == Err([variant |-> "panic", detail |-> "panic!"])

\* mutant of gen_partition_size: the flat layout has partition size 0
gen_partition_size_FlatZero(num_notes, length, max_file_count, depth) ==
    IF depth > num_notes THEN Panic
    ELSE IF num_notes = 1 \/ ~BigLess(BigOf(max_file_count), BigPow(num_notes, length))
    THEN (IF depth > 1 THEN Panic ELSE Ok(0))
    ELSE IF Pow(num_notes, depth) = 1 THEN Ok(U32Max)
    ELSE Ok(BigCeilLog(BigPow(num_notes, length), max_file_count,
                       Pow(num_notes, depth)))

\* utils::gen_partition_size
gen_partition_size(num_notes, length, max_file_count, depth) ==
    IF depth > num_notes THEN Panic
    ELSE LET num_sequences == BigPow(num_notes, length)
         IN  IF num_notes = 1 \/ ~BigLess(BigOf(max_file_count), num_sequences)
             THEN (IF depth > 1 THEN Panic ELSE Ok(length))
             ELSE LET base == Pow(num_notes, depth)
                  IN  \* a base of 1 divides by ln 1 = 0: +inf, saturated by the cast
                      IF base = 1 THEN Ok(U32Max)
                      ELSE Ok(BigCeilLog(num_sequences, max_file_count, base))

\* the arguments <<num_notes, length, max_file_count, partition_depth>> of the
\* unit tests of gen_partition_size
SizeTests ==
    {<<1, 1, 4096, 1>>, <<2, 8, 4096, 1>>, <<2, 8, 4096, 2>>, <<8, 8, 4096, 1>>,
     <<8, 8, 4096, 2>>, <<8, 12, 4096, 1>>, <<8, 12, 4096, 2>>, <<9, 13, 4096, 2>>,
     <<9, 13, 256, 2>>, <<9, 13, 4096, 3>>}

\* the arguments the functions are called with: a grid of small values, the
\* unit tests, and seven notes whose melodies fill max_files = 7 directories
\* a power of seven times
SizeInputs ==
    ((1..3) \X (1..MaxLen) \X MaxFilesSet \X (1..(MaxDepth + 1)))
        \cup SizeTests \cup {<<7, 8, 7, 1>>}

\* num_notes^length is an integer that single precision holds exactly
ExactInF32(num_notes, length) == BigLess(BigPow(num_notes, length), BigOf(16777217))

SizeInit ==
    /\ \E t \in SizeInputs :
          /\ notes = [i \in 1..t[1] |-> 59 + i]
          /\ melody_length = t[2]
          /\ max_files = t[3]
          /\ partition_depth = t[4]
    /\ path_generator = None
    /\ iters = <<>>
    /\ produced = <<>>
    /\ exhausted = TRUE
    /\ basenames = <<>>
    /\ kind = "gen_partition_size"
    /\ tar = <<>>
    /\ btf = <<>>
    /\ mode_arg = <<>>
    /\ batches = <<>>
    /\ calls = <<>>

SizeCall ==
    /\ calls = <<>>
    /\ calls' = <<[op |-> "gen_partition_size",
                   res |-> gen_partition_size(Len(notes), melody_length, max_files,
                                              partition_depth),
                   new |-> IF ExactInF32(Len(notes), melody_length)
                           THEN Some(PartitionPathGenerator_new(Len(notes), melody_length,
                                                                max_files, partition_depth))
                           ELSE None]>>
    /\ UNCHANGED <<kind, tar, btf, mode_arg, batches>>
    /\ UNCHANGED genVars

SpecSize == SizeInit /\ [][SizeCall]_vars

\* the arguments of the call
SizeArgs == <<Len(notes), melody_length, max_files, partition_depth>>

\* the flat layout: one note, or no more melodies than max_files
SizeFlat ==
    Len(notes) = 1 \/ ~BigLess(BigOf(max_files), BigPow(Len(notes), melody_length))

\* the least P >= 0 with (k^D)^P >= k^L / M
LeastP ==
    BigLeastPow(Pow(Len(notes), partition_depth), BigPow(Len(notes), melody_length),
                max_files, 0)

\* C24: for k > 1, k^L > M and D >= 1 the partition length computed by
\* gen_partition_size and by gen_partition_length is the least P >= 0 with
\* (k^D)^P >= k^L / M; the six examples give 4, 4, 5, 6, 4 and 2
C24_LeastPartitionLength ==
    (calls # <<>> /\ ~SizeFlat /\ partition_depth >= 1) =>
        /\ calls[1].res.ok => calls[1].res.val = LeastP
        /\ (calls[1].new # None /\ calls[1].new[1].ok)
               => calls[1].new[1].val.partition_length = LeastP
        /\ SizeArgs = <<8, 12, 4096, 2>> => calls[1].res = Ok(4)
        /\ SizeArgs = <<9, 13, 4096, 3>> => calls[1].res = Ok(4)
        /\ SizeArgs = <<9, 13, 4096, 2>> => calls[1].res = Ok(5)
        /\ SizeArgs = <<9, 13, 256, 2>> => calls[1].res = Ok(6)
        /\ SizeArgs = <<8, 8, 4096, 1>> => calls[1].res = Ok(4)
        /\ SizeArgs = <<8, 8, 4096, 2>> => calls[1].res = Ok(2)

\* C27: gen_partition_size returns the melody length in the flat layout with
\* partition_depth = 1, panics in the flat layout with partition_depth > 1,
\* and panics when partition_depth > k; (1,1,4096,1) gives 1, (2,8,4096,1)
\* gives 8 and (2,8,4096,2) panics
C27_FlatSizeIsLength ==
    calls # <<>> =>
        /\ (SizeFlat /\ partition_depth = 1) => calls[1].res = Ok(melody_length)
        /\ (SizeFlat /\ partition_depth > 1) => calls[1].res = Panic
        /\ partition_depth > Len(notes) => calls[1].res = Panic
        /\ SizeArgs = <<1, 1, 4096, 1>> => calls[1].res = Ok(1)
        /\ SizeArgs = <<2, 8, 4096, 1>> => calls[1].res = Ok(8)
        /\ SizeArgs = <<2, 8, 4096, 2>> => calls[1].res = Panic

\* gen_partition_size has returned the melody length for a flat layout of
\* more than one note, and has panicked for a depth of 2 in a flat layout
C27_Witness ==
    /\ calls # <<>>
    /\ SizeFlat
    /\ \/ SizeArgs = <<2, 8, 4096, 1>> /\ calls[1].res = Ok(8)
       \/ SizeArgs = <<2, 8, 4096, 2>> /\ calls[1].res = Panic

RECURSIVE ReplayFrom(_, _, _)
\* the BatchTarFile self after the melodies i..n-1 in lexicographic order have
\* been appended to it and it has been finished, every write succeeding
ReplayFrom(self, i, n) ==
    IF i >= n
    THEN CHOOSE r \in {BatchTarFile_finish(self, 0).self} : TRUE
    ELSE CHOOSE r \in {ReplayFrom(x, j, n) :
                          x \in {BatchTarFile_append_file(self, LexMelody(i), None, TRUE).self},
                          j \in {i + 1}} : TRUE

\* the backend a run leaves behind, as a function of the inputs of the run
OutputOf(batch_size, batch_mode) ==
    ReplayFrom(BatchTarFile_new(batch_size, Len(notes), melody_length, max_files,
                                partition_depth, batch_mode).val,
               0, Pow(Len(notes), melody_length))

gen_path_TailInLast(hash, partition_size, depth) ==
    IF Len(hash) < partition_size * 2 * depth THEN Panic
    ELSE Ok(Join([p \in 1..depth |->
                     SubSeq(hash, partition_size * 2 * (p - 1) + 1,
                            IF p = depth THEN Len(hash) ELSE partition_size * 2 * p)],
                 Sep))

\* utils::gen_path; part of the source is p - 1 here
gen_path(hash, partition_size, depth) ==
    IF Len(hash) < partition_size * 2 * depth THEN Panic
    ELSE Ok(Join([p \in 1..depth |->
                     SubSeq(hash, partition_size * 2 * (p - 1) + 1,
                            partition_size * 2 * p)],
                 Sep))

\* the melodies whose hashes are passed: two-digit notes, up to MaxLen of them
GenPathMelodies == UNION {[1..n -> {60, 62}] : n \in 0..MaxLen}

GenPathInit ==
    /\ \E m \in GenPathMelodies : produced = <<m>>
    /\ \E size \in 0..MaxDepth, depth \in 0..(MaxDepth + 1) :
          path_generator = [partition_size |-> size, partition_depth |-> depth]
    /\ notes = <<>>
    /\ melody_length = 0
    /\ max_files = 0
    /\ partition_depth = 0
    /\ iters = <<>>
    /\ exhausted = TRUE
    /\ basenames = <<>>
    /\ kind = "gen_path"
    /\ tar = <<>>
    /\ btf = <<>>
    /\ mode_arg = <<>>
    /\ batches = <<>>
    /\ calls = <<>>

GenPathCall ==
    /\ calls = <<>>
    /\ calls' = <<[op |-> "gen_path",
                   hash |-> gen_hash(produced[1]),
                   res |-> gen_path(gen_hash(produced[1]), path_generator.partition_size,
                                    path_generator.partition_depth)]>>
    /\ UNCHANGED <<kind, tar, btf, mode_arg, batches>>
    /\ UNCHANGED genVars

SpecGenPath == GenPathInit /\ [][GenPathCall]_vars

\* the path with its separators removed
Unseparated(path) == SelectSeq(path, LAMBDA c : c # Sep)

\* C28: gen_path(hash, P, D) panics when the hash has fewer than 2*P*D
\* characters; otherwise it returns D segments joined by the separator,
\* segment p being hash[2*P*p .. 2*P*(p+1)], so that the path without its
\* separators is the first 2*P*D characters of the hash and holds nothing of
\* the rest
C28_PathIsHashPrefix ==
    calls # <<>> =>
        LET hash == calls[1].hash
            P == path_generator.partition_size
            D == path_generator.partition_depth
            res == calls[1].res
        IN  IF Len(hash) < 2 * P * D THEN res = Panic
            ELSE /\ res.ok
                 /\ Len(res.val) = 2 * P * D + (IF D = 0 THEN 0 ELSE D - 1)
                 /\ \A p \in 0..(D - 1) :
                       /\ SubSeq(res.val, p * (2 * P + 1) + 1, p * (2 * P + 1) + 2 * P)
                              = SubSeq(hash, 2 * P * p + 1, 2 * P * (p + 1))
                       /\ p < D - 1 => res.val[(p + 1) * (2 * P + 1)] = Sep
                 /\ Unseparated(res.val) = SubSeq(hash, 1, 2 * P * D)

\* a hash of three notes was cut into two segments of one note each, the
\* third note left out
C28_Witness ==
    /\ calls # <<>>
    /\ path_generator.partition_size = 1
    /\ path_generator.partition_depth = 2
    /\ calls[1].hash = <<"6", "0", "6", "2", "6", "0">>
    /\ calls[1].res = Ok(<<"6", "0", Sep, "6", "2">>)

(***************************************************************************)
(* The legacy batch archive (utils::BatchedMIDIArchive) and its driver     *)
(* atm_batch (SpecBatch).  btf holds the archive, path_generator the       *)
(* arguments partition_size, batch_size and max_count of the driver,       *)
(* produced the melodies the loop has pushed, calls the calls of push and  *)
(* finish with the state of the archive before the call.  Every result is  *)
(* unwrapped by the driver: a call that returns Err or panics ends the     *)
(* process.                                                                *)
(***************************************************************************)
\* BatchedMIDIArchive::gen_encoder
gen_encoder == [written |-> <<>>, finished |-> FALSE]

\* BatchedMIDIArchive::new; batch_archive is a tar::Builder on a Vec<u8>
BatchedMIDIArchive_new(depth, maxf, size, batch) ==
    [partition_depth |-> depth,
     max_files |-> maxf,
     partition_size |-> size,
     batch_size |-> batch,
     current_partition |-> <<>>,
     file_count |-> 0,
     state |-> "Open",
     target_archive |-> Builder_new,
     batch_archive |-> Builder_new,
     batch_encoder |-> gen_encoder]

\* BatchedMIDIArchive::gen_batch_size: the length of the Vec behind the batch
\* archive, an entry or the end-of-archive blocks being 1024 bytes each
gen_batch_size(self) == (Len(self.batch_archive.obj) * RecordBytes) \div 1024

\* BatchedMIDIArchive::flush
flush(self, io_ok) ==
    LET fin == Builder_finish(self.batch_archive, TRUE).self
        enc == [written |-> GzOutput(fin.obj), finished |-> TRUE]
        header == [size |-> Bytes(enc.written), mode |-> 0]
        path == self.current_partition \o <<"/", "batch">>
                    \o ToStr(((self.file_count % self.max_files) \div self.batch_size) + 1)
                    \o <<".tar.gz">>
        r == Builder_append_data(self.target_archive, header, path,
                                 [i \in 1..Len(enc.written) |-> enc.written[i].rec], io_ok)
        flushed == [self EXCEPT !.batch_archive = fin, !.batch_encoder = enc]
    IN  IF ~r.res.ok THEN [self |-> flushed, res |-> r.res]
        ELSE [self |-> [flushed EXCEPT
                           !.target_archive = r.self,
                           !.file_count = @ + gen_batch_size(flushed),
                           !.batch_archive = Builder_new,
                           !.batch_encoder = gen_encoder],
              res |-> Ok(Unit)]

\* BatchedMIDIArchive::push; ok1 and ok2 say whether the write of the flush at
\* the partition boundary and of the flush at the batch boundary succeed
BatchedMIDIArchive_push(self, mfile, ok1, ok2) ==
    IF self.state = "Closed" THEN [self |-> self, res |-> Panic]
    ELSE LET hash == gen_hash(mfile)
             partition == gen_path(hash, self.partition_size, self.partition_depth)
         IN  IF ~partition.ok THEN [self |-> self, res |-> Panic]
             ELSE LET s1 == IF self.current_partition = <<>>
                            THEN [self |-> [self EXCEPT !.current_partition = partition.val],
                                  res |-> Ok(Unit)]
                            ELSE IF self.current_partition # partition.val
                            THEN LET f == flush(self, ok1)
                                 IN  IF f.res.ok
                                     THEN [self |-> [f.self EXCEPT
                                                        !.current_partition = partition.val],
                                           res |-> Ok(Unit)]
                                     ELSE f
                            ELSE [self |-> self, res |-> Ok(Unit)]
                  IN  IF ~s1.res.ok THEN s1
                      ELSE LET a == Builder_append_data(
                                        s1.self.batch_archive,
                                        [size |-> MIDIFile_gen_size(mfile), mode |-> 0],
                                        hash \o <<".mid">>, MIDIFile_gen_file(mfile), TRUE)
                               s2 == [s1.self EXCEPT !.batch_archive = a.self]
                           IN  IF gen_batch_size(s2) = s2.batch_size
                               THEN flush(s2, ok2)
                               ELSE [self |-> s2, res |-> Ok(Unit)]

\* mutant of BatchedMIDIArchive_finish: the state is left Open
BatchedMIDIArchive_finish_StaysOpen(self, ok1, ok2) ==
    IF self.state = "Closed" THEN [self |-> self, res |-> Panic]
    ELSE LET s1 == IF gen_batch_size(self) > 0 THEN flush(self, ok1)
                   ELSE [self |-> self, res |-> Ok(Unit)]
         IN  IF ~s1.res.ok THEN s1
             ELSE LET r == Builder_finish(s1.self.target_archive, ok2)
                  IN  [self |-> [s1.self EXCEPT !.target_archive = r.self], res |-> r.res]

\* BatchedMIDIArchive::finish; ok1 and ok2 say whether the write of the flush
\* and of the end-of-archive blocks succeed
BatchedMIDIArchive_finish(self, ok1, ok2) ==
    IF self.state = "Closed" THEN [self |-> self, res |-> Panic]
    ELSE LET s1 == IF gen_batch_size(self) > 0 THEN flush(self, ok1)
                   ELSE [self |-> self, res |-> Ok(Unit)]
         IN  IF ~s1.res.ok THEN s1
             ELSE LET r == Builder_finish(s1.self.target_archive, ok2)
                  IN  IF ~r.res.ok
                      THEN [self |-> [s1.self EXCEPT !.target_archive = r.self],
                            res |-> r.res]
                      ELSE [self |-> [s1.self EXCEPT !.target_archive = r.self,
                                                     !.state = "Closed"],
                            res |-> Ok(Unit)]

\* the note vectors atm_batch is run with
BatchNoteVecs == {<<60>>, <<60, 62>>, <<60, 62, 64>>}

BatchInit ==
    /\ notes \in BatchNoteVecs
    /\ melody_length \in LoopLengths
    /\ max_files \in MaxFilesSet
    /\ partition_depth \in 1..MaxDepth
    /\ \E size \in {gen_partition_size(Len(notes), melody_length, max_files,
                                       partition_depth)},
          batch \in 1..MaxBatchSize,
          max_count \in 1..(Pow(Len(notes), melody_length) + 1) :
          /\ size.ok
          /\ path_generator = [partition_size |-> size.val, batch_size |-> batch,
                               max_count |-> max_count]
          /\ btf = BatchedMIDIArchive_new(partition_depth, max_files, size.val, batch)
    /\ iters = gen_sequences(notes, melody_length)
    /\ produced = <<>>
    /\ exhausted = FALSE
    /\ basenames = <<>>
    /\ kind = "BatchedMIDIArchive"
    /\ tar = <<>>
    /\ mode_arg = <<>>
    /\ batches = <<>>
    /\ calls = <<>>

\* an unwrap() has panicked: the process has ended
Panicked == calls # <<>> /\ ~calls[Len(calls)].res.ok

\* the write of a call fails only while the run has faults left, and a call
\* told of a failing write has made it
FaultAllowed(ok1, ok2, res) ==
    /\ (ok1 /\ ok2) \/ Faults < MaxFaults
    /\ (ok1 /\ ok2) \/ res = Err(ErrWrite)
    /\ ok1 \/ ok2

\* one turn of the loop with idx # max_count: archive.push(mfile).unwrap()
AtmBatchPush ==
    /\ ~exhausted
    /\ ~Panicked
    /\ Len(produced) # path_generator.max_count
    /\ \E it \in {IterateLast(iters, "StartOfIter", Len(notes))}, ok1, ok2 \in BOOLEAN :
          /\ it.res
          /\ iters' = it.its
          /\ produced' = Append(produced, CurrMelody(it.its, notes))
          /\ \E r \in {BatchedMIDIArchive_push(btf, CurrMelody(it.its, notes), ok1, ok2)} :
                /\ FaultAllowed(ok1, ok2, r.res)
                /\ btf' = r.self
                /\ calls' = Append(calls,
                       [op |-> "push", melody |-> CurrMelody(it.its, notes),
                        before |-> btf.state, res |-> r.res])
    /\ UNCHANGED <<notes, melody_length, max_files, partition_depth, path_generator,
                   exhausted, basenames, kind, tar, mode_arg, batches>>

\* the turn of the loop with idx = max_count: archive.finish().unwrap() and
\* break; after the loop the archive is Closed and is not finished again
AtmBatchCountReached ==
    /\ ~exhausted
    /\ ~Panicked
    /\ Len(produced) = path_generator.max_count
    /\ \E it \in {IterateLast(iters, "StartOfIter", Len(notes))}, ok1, ok2 \in BOOLEAN :
          /\ it.res
          /\ iters' = it.its
          /\ \E r \in {BatchedMIDIArchive_finish(btf, ok1, ok2)} :
                /\ FaultAllowed(ok1, ok2, r.res)
                /\ \E again \in {IF r.res.ok /\ r.self.state = "Open"
                                 THEN BatchedMIDIArchive_finish(r.self, TRUE, TRUE)
                                 ELSE [self |-> r.self, res |-> r.res]} :
                      /\ btf' = again.self
                      /\ calls' =
                             IF r.res.ok /\ r.self.state = "Open"
                             THEN calls \o <<[op |-> "finish", melody |-> <<>>,
                                              before |-> btf.state, res |-> r.res],
                                             [op |-> "finish", melody |-> <<>>,
                                              before |-> r.self.state, res |-> again.res]>>
                             ELSE Append(calls, [op |-> "finish", melody |-> <<>>,
                                                 before |-> btf.state, res |-> r.res])
                /\ exhausted' = r.res.ok
    /\ UNCHANGED <<notes, melody_length, max_files, partition_depth, path_generator,
                   produced, basenames, kind, tar, mode_arg, batches>>

\* the iterator is exhausted: the loop ends, and the archive is finished if
\* its state is Open
AtmBatchLoopEnd ==
    /\ ~exhausted
    /\ ~Panicked
    /\ \E it \in {IterateLast(iters, "StartOfIter", Len(notes))}, ok1, ok2 \in BOOLEAN :
          /\ ~it.res
          /\ iters' = it.its
          /\ IF btf.state = "Open"
             THEN \E r \in {BatchedMIDIArchive_finish(btf, ok1, ok2)} :
                     /\ FaultAllowed(ok1, ok2, r.res)
                     /\ btf' = r.self
                     /\ calls' = Append(calls, [op |-> "finish", melody |-> <<>>,
                                                before |-> btf.state, res |-> r.res])
                     /\ exhausted' = r.res.ok
             ELSE /\ ok1 /\ ok2
                  /\ UNCHANGED <<btf, calls>>
                  /\ exhausted' = TRUE
    /\ UNCHANGED <<notes, melody_length, max_files, partition_depth, path_generator,
                   produced, basenames, kind, tar, mode_arg, batches>>

BatchNext == AtmBatchPush \/ AtmBatchCountReached \/ AtmBatchLoopEnd

SpecBatch == BatchInit /\ [][BatchNext]_vars

\* the calls of push and of finish the driver has made
Pushes == SelectSeq(calls, LAMBDA c : c.op = "push")
Finishes == SelectSeq(calls, LAMBDA c : c.op = "finish")

\* min(max_count, k^L)
PushTarget ==
    IF path_generator.max_count < Pow(Len(notes), melody_length)
    THEN path_generator.max_count
    ELSE Pow(Len(notes), melody_length)

\* the driver has returned
Returned == exhausted /\ ~Panicked

\* C29: atm_batch pushes the melodies in enumeration order, min(max_count,
\* k^L) of them by the time it returns, then calls finish() exactly once,
\* whether the count is reached in the loop or the enumeration is exhausted;
\* it never calls push or finish on a Closed archive
C29_PushesThenOneFinish ==
    /\ \A i \in 1..Len(calls) : calls[i].before = "Open"
    /\ Len(Pushes) <= PushTarget
    /\ \A i \in 1..Len(Pushes) : Pushes[i].melody = LexMelody(i - 1)
    /\ Len(Finishes) <= 1
    /\ \A i \in 1..Len(calls) : calls[i].op = "finish" => i = Len(calls)
    /\ Returned =>
          /\ Len(Pushes) = PushTarget
          /\ Len(Finishes) = 1
          /\ btf.state = "Closed"

\* the driver has returned after the count was reached inside the loop
C29_Witness ==
    /\ Returned
    /\ path_generator.max_count = 2
    /\ Pow(Len(notes), melody_length) = 4
    /\ Len(Pushes) = 2
    /\ Len(Finishes) = 1

\* the MIDI files in the batches flushed to the target archive so far
RECURSIVE FlushedFiles(_)
FlushedFiles(entries) ==
    IF entries = <<>> THEN 0
    ELSE (IF Head(entries).kind = "entry" THEN Len(FilesOf(Head(entries).data)) ELSE 0)
             + FlushedFiles(Tail(entries))

\* C30: file_count is the number of MIDI files in all the batches flushed so
\* far; each flush adds the number of files of the batch it flushes
C30_FileCountIsFilesFlushed ==
    btf.file_count = FlushedFiles(btf.target_archive.obj)

(***************************************************************************)
(* The size estimates (directives/estimate.rs, estimate_tar_gz.rs),        *)
(* checked under SpecPad: one call of pad_value_to_block on a value and an *)
(* optional block size, and the alignment EstimateTarGzDirective::run      *)
(* applies to the same value.                                              *)
(***************************************************************************)

\* the block size pad_value_to_block falls back to
DefaultBlockSize == 512

\* u64::checked_rem_euclid: None when the divisor is zero
checked_rem_euclid(value, rhs) ==
    IF rhs = 0 THEN None ELSE Some(value % rhs)

pad_value_to_block(value, block_size) ==
    LET block == IF block_size = None THEN DefaultBlockSize ELSE block_size[1]
        padding == checked_rem_euclid(value, block)
    IN  IF padding # None
        THEN value + padding[1]
        ELSE value

\* the alignment of sim_size_estimate in EstimateTarGzDirective::run
AlignSimSizeEstimate(sim_size_estimate) ==
    LET padding == checked_rem_euclid(sim_size_estimate, 512)
    IN  IF padding # None
        THEN sim_size_estimate + padding[1]
        ELSE sim_size_estimate

PadValues == (0..12) \cup {100, 256, 511, 512, 513, 1000, 1024, 1536}
PadBlockSizes == {None} \cup {Some(b) : b \in {0, 1, 2, 3, 4, 512}}

PadInit ==
    /\ \E value \in PadValues, block_size \in PadBlockSizes :
          path_generator = [value |-> value, block_size |-> block_size]
    /\ notes = <<>>
    /\ melody_length = 0
    /\ max_files = 0
    /\ partition_depth = 0
    /\ iters = <<>>
    /\ produced = <<>>
    /\ exhausted = TRUE
    /\ basenames = <<>>
    /\ kind = "pad_value_to_block"
    /\ tar = <<>>
    /\ btf = <<>>
    /\ mode_arg = <<>>
    /\ batches = <<>>
    /\ calls = <<>>

PadCall ==
    /\ calls = <<>>
    /\ calls' = <<[op |-> "pad_value_to_block",
                   res |-> pad_value_to_block(path_generator.value,
                                              path_generator.block_size),
                   aligned |-> AlignSimSizeEstimate(path_generator.value)]>>
    /\ UNCHANGED <<kind, tar, btf, mode_arg, batches>>
    /\ UNCHANGED genVars

SpecPad == PadInit /\ [][PadCall]_vars

\* the block size a call works with
PadBlock ==
    IF path_generator.block_size = None
    THEN DefaultBlockSize
    ELSE path_generator.block_size[1]

\* r is the least multiple of block that is >= value
LeastMultipleAtLeast(r, value, block) ==
    /\ r % block = 0
    /\ r >= value
    /\ r - value < block

\* C31: pad_value_to_block(value, block_size) returns the least multiple of
\* block_size (512 when none is given) that is >= value, and returns value
\* itself when value is already a multiple of block_size; the alignment in
\* EstimateTarGzDirective::run does the same for 512
C31_PadsToLeastMultiple ==
    (calls # <<>> /\ PadBlock > 0) =>
        /\ LeastMultipleAtLeast(calls[1].res, path_generator.value, PadBlock)
        /\ LeastMultipleAtLeast(calls[1].aligned, path_generator.value, 512)
        /\ (path_generator.value % PadBlock = 0 => calls[1].res = path_generator.value)

(***************************************************************************)
(* The command-line arguments (cli.rs), checked under SpecDepth: one call  *)
(* of PartitionDepthArg::try_from_str on an argument string.               *)
(***************************************************************************)

Digits == {DigitChar(d) : d \in 0..9}

\* the decimal digits of u32::MAX
U32MaxDigits == <<"4", "2", "9", "4", "9", "6", "7", "2", "9", "5">>

RECURSIVE StripZeros(_)
StripZeros(digits) ==
    IF Len(digits) > 1 /\ digits[1] = "0" THEN StripZeros(Tail(digits)) ELSE digits

\* a < b for two digit strings of the same length
RECURSIVE DigitsLess(_, _)
DigitsLess(a, b) ==
    IF a = <<>> THEN FALSE
    ELSE IF a[1] # b[1] THEN DigitValue(a[1]) < DigitValue(b[1])
    ELSE DigitsLess(Tail(a), Tail(b))

\* str::parse::<u32>: an optional '+', then one or more decimal digits whose
\* value fits 32 bits; anything else is a ParseIntError
parse_u32(arg) ==
    LET digits == IF arg # <<>> /\ arg[1] = "+" THEN Tail(arg) ELSE arg
        sig == StripZeros(digits)
    IN  IF arg = <<>> THEN Err("Empty")
        ELSE IF digits = <<>> \/ \E i \in 1..Len(digits) : digits[i] \notin Digits
        THEN Err("InvalidDigit")
        ELSE IF \/ Len(sig) > Len(U32MaxDigits)
                \/ Len(sig) = Len(U32MaxDigits) /\ DigitsLess(U32MaxDigits, sig)
        THEN Err("PosOverflow")
        ELSE Ok(ParseNat(sig))

PartitionDepthArg_try_from_str(arg) ==
    LET parsed == parse_u32(arg)
    IN  IF ~parsed.ok
        THEN Err([variant |-> "NotInteger", detail |-> parsed.err])
        ELSE IF parsed.val = 0 \/ parsed.val > 4
        THEN Err([variant |-> "ValueOutOfRange", detail |-> parsed.val])
        ELSE Ok(parsed.val)

DepthArgChars == {"0", "1", "4", "5", "9", "+", "-", "x"}
DepthArgs ==
    UNION {[1..n -> DepthArgChars] : n \in 0..3}
        \cup {<<"4", "2", "9", "4", "9", "6", "7", "2", "9", "6">>,
              <<"2", "1", "4", "7", "4", "8", "3", "6", "4", "7">>,
              <<"0", "0", "0", "0", "0", "0", "0", "0", "0", "0", "3">>}

DepthInit ==
    /\ \E arg \in DepthArgs : path_generator = arg
    /\ notes = <<>>
    /\ melody_length = 0
    /\ max_files = 0
    /\ partition_depth = 0
    /\ iters = <<>>
    /\ produced = <<>>
    /\ exhausted = TRUE
    /\ basenames = <<>>
    /\ kind = "PartitionDepthArg"
    /\ tar = <<>>
    /\ btf = <<>>
    /\ mode_arg = <<>>
    /\ batches = <<>>
    /\ calls = <<>>

DepthCall ==
    /\ calls = <<>>
    /\ calls' = <<[op |-> "try_from_str",
                   res |-> PartitionDepthArg_try_from_str(path_generator)]>>
    /\ UNCHANGED <<kind, tar, btf, mode_arg, batches>>
    /\ UNCHANGED genVars

SpecDepth == DepthInit /\ [][DepthCall]_vars

\* the argument is the decimal text of an integer: an optional sign, then digits
DepthArgIsInteger ==
    LET arg == path_generator
        digits == IF arg # <<>> /\ arg[1] \in {"+", "-"} THEN Tail(arg) ELSE arg
    IN  /\ digits # <<>>
        /\ \A i \in 1..Len(digits) : digits[i] \in Digits

\* the integers 0..4, under any spelling: sign, leading zeros
DepthArgInRange ==
    LET arg == path_generator
        digits == IF arg[1] \in {"+", "-"} THEN Tail(arg) ELSE arg
        sig == StripZeros(digits)
    IN  /\ DepthArgIsInteger
        /\ Len(sig) = 1
        /\ DigitValue(sig[1]) <= 4
        /\ (arg[1] = "-" => sig = <<"0">>)

\* C32: PartitionDepthArg::try_from_str accepts exactly the integers 0, 1, 2,
\* 3 and 4 and returns ValueOutOfRange for every other integer
C32_AcceptsZeroToFour ==
    (calls # <<>> /\ DepthArgIsInteger) =>
        IF DepthArgInRange
        THEN calls[1].res.ok
        ELSE /\ ~calls[1].res.ok
             /\ calls[1].res.err.variant = "ValueOutOfRange"

(***************************************************************************)
(* The split directive (directives.rs, atm_split), checked under           *)
(* SpecSplit.  notes holds the entry sizes of the source archive, in       *)
(* order; path_generator holds the arguments chunk_size and num_chunks;    *)
(* max_files holds chunk_maximum_size once computed (None before); iters   *)
(* is the number of source entries read; btf holds the loop variables      *)
(* current_chunk_size and chunk_count; batches holds the chunk archives    *)
(* created so far, each with the sizes of the entries appended to it.      *)
(***************************************************************************)

\* bytes a tar archive spends on an entry of the given size: one header
\* block and the data rounded up to whole blocks
EntryBytes(entry_size) == 512 + 512 * ((entry_size + 511) \div 512)

RECURSIVE SumEntryBytes(_)
SumEntryBytes(s) == IF s = <<>> THEN 0 ELSE EntryBytes(s[1]) + SumEntryBytes(Tail(s))

\* source.metadata().len(): the entries and the two end-of-archive blocks
SourceSize(entries) == SumEntryBytes(entries) + 1024

\* (a as f64 / b as f64).round() as u64, for b > 0
RoundDiv(a, b) == (2 * a + b) \div (2 * b)

\* what the loop adds to current_chunk_size for an entry
Accounted(entry_size) == 512 + (IF entry_size > 512 THEN entry_size ELSE 512)

SplitEntrySizes == {0, 100, 512, 600, 1024}
SplitChunkSizes == {1024, 1536, 2000, 2048, 4096}
SplitNumChunks == {1, 2, 3}
SplitArgs ==
    {[chunk_size |-> Some(c), num_chunks |-> None] : c \in SplitChunkSizes}
        \cup {[chunk_size |-> None, num_chunks |-> Some(n)] : n \in SplitNumChunks}

\* atm_split_gen_chunk_archive: a new, empty, unfinished builder
atm_split_gen_chunk_archive(chunk_count) ==
    [chunk_count |-> chunk_count, entries |-> <<>>, finished |-> FALSE]

SplitInit ==
    /\ \E entries \in UNION {[1..n -> SplitEntrySizes] : n \in 1..MaxLen} :
          notes = entries
    /\ \E args \in SplitArgs : path_generator = args
    /\ max_files = None
    /\ melody_length = 0
    /\ partition_depth = 0
    /\ iters = 0
    /\ produced = <<>>
    /\ exhausted = FALSE
    /\ basenames = <<>>
    /\ kind = "atm_split"
    /\ tar = <<>>
    /\ btf = <<>>
    /\ mode_arg = <<>>
    /\ batches = <<>>
    /\ calls = <<>>

\* the function up to the loop: chunk_maximum_size and the first chunk archive
SplitStart ==
    /\ max_files = None
    /\ ~exhausted
    /\ LET source_size == SourceSize(notes)
           chunk_size == path_generator.chunk_size
       IN  IF chunk_size # None /\ chunk_size[1] >= source_size
           THEN /\ exhausted' = TRUE
                /\ calls' = Append(calls, "panic")
                /\ UNCHANGED <<max_files, btf, batches>>
           ELSE /\ max_files' =
                       Some(IF chunk_size = None
                            THEN RoundDiv(source_size, path_generator.num_chunks[1])
                            ELSE chunk_size[1])
                /\ btf' = [current_chunk_size |-> 0, chunk_count |-> 0]
                /\ batches' = <<atm_split_gen_chunk_archive(0)>>
                /\ UNCHANGED <<exhausted, calls>>
    /\ UNCHANGED <<notes, melody_length, partition_depth, path_generator, iters,
                   produced, basenames, kind, tar, mode_arg>>

\* one iteration of the entry loop
SplitEntry ==
    /\ max_files # None
    /\ ~exhausted
    /\ iters < Len(notes)
    /\ LET entry_size == notes[iters + 1]
           flushing == btf.current_chunk_size + entry_size > max_files[1]
           flushed == IF flushing
                      THEN [batches EXCEPT ![Len(batches)].finished = TRUE]
                               \o <<atm_split_gen_chunk_archive(btf.chunk_count + 1)>>
                      ELSE batches
           current == IF flushing THEN 0 ELSE btf.current_chunk_size
       IN  /\ batches' = [flushed EXCEPT ![Len(flushed)].entries = Append(@, entry_size)]
           /\ btf' = [current_chunk_size |-> current + Accounted(entry_size),
                      chunk_count |-> IF flushing THEN btf.chunk_count + 1
                                      ELSE btf.chunk_count]
    /\ iters' = iters + 1
    /\ UNCHANGED <<notes, melody_length, max_files, partition_depth, path_generator,
                   produced, exhausted, basenames, kind, tar, mode_arg, calls>>

\* after the loop: the final chunk is finished
SplitFinish ==
    /\ max_files # None
    /\ ~exhausted
    /\ iters = Len(notes)
    /\ batches' = [batches EXCEPT ![Len(batches)].finished = TRUE]
    /\ exhausted' = TRUE
    /\ UNCHANGED <<notes, melody_length, max_files, partition_depth, path_generator,
                   iters, produced, basenames, kind, tar, btf, mode_arg, calls>>

SplitNext == SplitStart \/ SplitEntry \/ SplitFinish

SpecSplit == SplitInit /\ [][SplitNext]_vars

\* the accounted size of a chunk: what the loop has added to
\* current_chunk_size for its entries
RECURSIVE SumAccounted(_)
SumAccounted(s) == IF s = <<>> THEN 0 ELSE Accounted(s[1]) + SumAccounted(Tail(s))

ChunkAccounted(chunk) == SumAccounted(chunk.entries)

\* C33: every output chunk's accounted size (512 header bytes plus
\* max(entry_size, 512) data bytes per entry) stays within
\* chunk_maximum_size, whenever each source entry's own accounted size does
C33_ChunkWithinMaximum ==
    (/\ max_files # None
     /\ \A i \in 1..Len(notes) : Accounted(notes[i]) <= max_files[1]) =>
        \A c \in 1..Len(batches) : ChunkAccounted(batches[c]) <= max_files[1]

====
